---------------------------- MODULE Spec2Model ----------------------------
(***************************************************************************)
(* Model of the hash tables of cuckoo-hashing-benchmark.                   *)
(*                                                                         *)
(* The tables are parametric in the group width, the hash width and the    *)
(* fingerprint width.  The model keeps every formula of the source and     *)
(* instantiates the widths with small powers of two, so that groups fill   *)
(* up, windows wrap around the end of the tag array and the breadth-first  *)
(* displacement runs out of room with a handful of keys:                   *)
(*     Group::WIDTH   32 (AVX2) / 16 (SSE2) / 8    ->  W = 2               *)
(*     u64 hashes     64 bits                      ->  HashBits = 6        *)
(*     Tag (u8)       1 special bit + 7 fp bits    ->  1 + FpBits = 2 bits *)
(*     usize          64 bits                      ->  UsizeBits = 8       *)
(* The mixer fold_hash_fast is a black box for the tables: the model       *)
(* draws the hash of every key at Init (variable hash_of) and never        *)
(* changes it, which is what a deterministic hash with a fixed seed does.  *)
(***************************************************************************)
EXTENDS Integers, Sequences, FiniteSets, TLC

\* ------------------------------------------------------------------ widths

W == 2

HashBits == 6

HalfBits == HashBits \div 2

FpBits == 1

UsizeBits == 8

UsizeMod == 2 ^ UsizeBits

\* six bits of 0x2d35_8dcc_aa6c_78a5 (the 0x35): odd, and its upper half, which
\* scramble_tag moves into the position bits, is not zero
MUL == 53

\* ------------------------------------------------------------------ bounds

NumKeys == 3

NumVals == 2

MaxTableCapacity == 5

Keys == 1 .. NumKeys

\* the keys of the tables that keep key 0 apart (zero_value)
AllKeys == {0} \cup Keys

Vals == 1 .. NumVals

MaxOps == 4

\* The hashes the keys may have: each half of the hash (the half that gives
\* the first position and the half that gives the second position and the
\* fingerprint) is all zeros or all ones.  Keys therefore collide in the
\* first group or window of the table and in the last one, which in the
\* unaligned table wraps around the end of the tag array.
HalfChoices == {0, 2 ^ HalfBits - 1}

Hashes == {lo + (2 ^ HalfBits) * hi : lo \in HalfChoices, hi \in HalfChoices}

\* Key 0 / value 0 in a bucket stand for memory that was never written.
Uninit == 0

\* Absence in the reference map and in the result of get.
None == 0

\* Option<usize>::None: no slot found, no slot remembered
NoSlot == 0 - 1

\* the random walk of the scalar cuckoo table is followed for this many
\* evictions; a longer walk counts as a call that does not return
MaxEvictions == 3

\* ------------------------------------------------------------------ tags

EMPTY == 2 ^ (FpBits + 1) - 1

DELETED == 2 ^ FpBits

FullTags == 0 .. (2 ^ FpBits - 1)

Tags == FullTags \cup {EMPTY, DELETED}

is_full(tag) == tag < 2 ^ FpBits

\* Tag::full(hash): the top fingerprint bits of the hash.
TagFull(hash) == hash \div (2 ^ (HashBits - FpBits))

\* ------------------------------------------------------------------ integers

RECURSIVE BitAnd(_, _)
BitAnd(a, b) ==
    IF a = 0 \/ b = 0 THEN 0
    ELSE (a % 2) * (b % 2) + 2 * BitAnd(a \div 2, b \div 2)

RECURSIVE BitXor(_, _)
BitXor(a, b) ==
    IF a = 0 THEN b
    ELSE IF b = 0 THEN a
    ELSE ((a + b) % 2) + 2 * BitXor(a \div 2, b \div 2)

RECURSIVE BitOr(_, _)
BitOr(a, b) ==
    IF a = 0 THEN b
    ELSE IF b = 0 THEN a
    ELSE (IF a % 2 = 1 \/ b % 2 = 1 THEN 1 ELSE 0) + 2 * BitOr(a \div 2, b \div 2)

\* usize::wrapping_sub
WrappingSub(a, b) == (a - b + UsizeMod) % UsizeMod

\* u64::rotate_left(32): the two halves of the hash change places.
RotateLeftHalf(h) ==
    (h % (2 ^ HalfBits)) * (2 ^ HalfBits) + (h \div (2 ^ HalfBits))

\* usize::next_power_of_two (0 and 1 both give 1)
RECURSIVE NextPow2From(_, _)
NextPow2From(p, n) == IF p >= n THEN p ELSE NextPow2From(2 * p, n)

NextPowerOfTwo(n) == NextPow2From(1, n)

SetMin(S) == CHOOSE x \in S : \A y \in S : x <= y

SetMax(S) == CHOOSE x \in S : \A y \in S : x >= y

\* scramble_tag(tag) = (tag as u64).wrapping_mul(MUL).rotate_left(32)
ScrambleTag(tag) == RotateLeftHalf((tag * MUL) % (2 ^ HashBits))

VARIABLES
    variant,              \* which table implementation this table is
    bucket_mask,          \* HashTable.bucket_mask
    aligned_bucket_mask,  \* HashTable.aligned_bucket_mask
    ctrl,                 \* the tag array C0, C1, ...
    buckets,              \* the slots T0, T1, ...: [key, val]
    items,                \* HashTable.items (len in the bucket tables)
    zero_value,           \* HashTable.zero_value of the tables without tags
    hash_of,              \* fold_hash_fast(key, seed) for every key
    std_map,              \* the reference map of the tests, driven by the same calls
    ret,                  \* the last call: its arguments and what it returned
    status,               \* "ready", or "panicked" after the fatal condition
    ops,                  \* the number of calls made on the table
    pending,              \* the writes the running insert has not made yet
    destructed            \* how often the destructor of each owned value ran

vars == <<variant, bucket_mask, aligned_bucket_mask, ctrl, buckets, items,
          zero_value, hash_of, std_map, ret, status, ops, pending,
          destructed>>

num_buckets == bucket_mask + 1

\* the values with a destructor that the calls of a run hand to the table:
\* the call number ops + 1 hands over the value ops + 1
OwnedValues == 1 .. MaxOps

\* no insert is running
NoWrites == [writes |-> <<>>, slots |-> {}]

\* ------------------------------------------------------------------ Group / BitMask

\* Group::load(self.ctrl(pos)) for a window inside the tag array.
GroupLoad(pos) == [i \in 0 .. (W - 1) |-> ctrl[pos + i]]

\* Group::load(self.ctrl(pos)) where the window may run past the last
\* allocated tag: the bytes behind the allocation are whatever memory holds.
GroupLoadPast(pos, past) ==
    [i \in 0 .. (W - 1) |->
        IF pos + i \in DOMAIN ctrl THEN ctrl[pos + i]
        ELSE past[pos + i - SetMax(DOMAIN ctrl) - 1]]

match_tag(group, tag) == {i \in 0 .. (W - 1) : group[i] = tag}

match_empty(group) == match_tag(group, EMPTY)

\* a match_empty_or_deleted that overlooks the tombstones
MatchEmptyNotDeleted(group) == match_empty(group)

match_empty_or_deleted(group) == {i \in 0 .. (W - 1) : ~is_full(group[i])}

\* a match_full that inverts the mask of the EMPTY tags only
MatchFullInvertsEmpty(group) == (0 .. (W - 1)) \ match_empty(group)

\* match_full: self.match_empty_or_deleted().invert()
match_full(group) == (0 .. (W - 1)) \ match_empty_or_deleted(group)

any_bit_set(mask) == mask # {}

trailing_zeros(mask) == IF mask = {} THEN W ELSE SetMin(mask)

leading_zeros(mask) == IF mask = {} THEN W ELSE W - 1 - SetMax(mask)

\* ------------------------------------------------------------------ with_capacity

\* num_buckets of the tag-based tables
NumBuckets(capacity) == NextPowerOfTwo((capacity * 8) \div 7)

EmptyBucket == [key |-> Uninit, val |-> Uninit]

\* ------------------------------------------------------------------ accessors

pos_of(hash, mask) == BitAnd(hash, mask)

\* the slot whose tag is FULL and whose key is `key`, as a set (empty or one slot)
SlotsOf(key) ==
    {i \in 0 .. bucket_mask : is_full(ctrl[i]) /\ buckets[i].key = key}

\* the lanes of a group whose tag matches and whose bucket holds `key`,
\* i.e. what `for bit in group.match_tag(tag) { if bucket.0 == key ...` finds
KeyLanes(pos, group, tag, key) ==
    {bit \in match_tag(group, tag) :
        buckets[BitAnd(pos + bit, bucket_mask)].key = key}

\* a slip the loop invites: the search without the check of its budget goes
\* round for ever, and the insert never returns
NeedToRehashNeverRaised(n) ==
    [ctrl |-> ctrl, buckets |-> buckets, items |-> n,
     fate |-> "hang", inserted |-> FALSE, index |-> 0, moves |-> 0]

\* panic!("Failed to insert into cuckoo table; need to rehash"): the insert
\* ends here, with the table as the search found it and len counted as n
NeedToRehash(n) ==
    [ctrl |-> ctrl, buckets |-> buckets, items |-> n,
     fate |-> "panic", inserted |-> FALSE, index |-> 0, moves |-> 0]

\* ------------------------------------------------------------------ aligned cuckoo table

ALIGNED_BFS_MAX_LEN == 2 * (1 + W + W * W + W * W * W)

AlignedPos0(key) == pos_of(hash_of[key], aligned_bucket_mask)

AlignedPos1(key) ==
    pos_of(BitXor(hash_of[key], ScrambleTag(TagFull(hash_of[key]))),
           aligned_bucket_mask)

\* a BFS that takes the other group of the table for the alternative group of
\* every occupant, whatever its tag
RECURSIVE AlignedBfsChildrenIgnoresTag(_, _, _, _)
AlignedBfsChildrenIgnoresTag(bfs_queue, pos0, bfs_write_pos, i) ==
    IF i = W THEN [found |-> FALSE, bfs_queue |-> bfs_queue]
    ELSE LET other_pos0 == BitXor(pos0, aligned_bucket_mask)
             empty == match_empty(GroupLoad(other_pos0))
             bfs_write_pos_i == bfs_write_pos + i
         IN  IF empty # {}
             THEN [found |-> TRUE,
                   path_index |-> bfs_write_pos_i,
                   bucket_index |-> other_pos0 + SetMin(empty),
                   bfs_queue |-> bfs_queue]
             ELSE AlignedBfsChildrenIgnoresTag(
                      (bfs_write_pos_i :> other_pos0) @@ bfs_queue,
                      pos0, bfs_write_pos, i + 1)

\* the `for i in 0..N` loop of the BFS, from iteration i on
RECURSIVE AlignedBfsChildren(_, _, _, _)
AlignedBfsChildren(bfs_queue, pos0, bfs_write_pos, i) ==
    IF i = W THEN [found |-> FALSE, bfs_queue |-> bfs_queue]
    ELSE LET other_pos0 ==
                 BitXor(pos0, BitAnd(ScrambleTag(ctrl[pos0 + i]), aligned_bucket_mask))
             empty == match_empty(GroupLoad(other_pos0))
             bfs_write_pos_i == bfs_write_pos + i
         IN  IF empty # {}
             THEN [found |-> TRUE,
                   path_index |-> bfs_write_pos_i,
                   bucket_index |-> other_pos0 + SetMin(empty),
                   bfs_queue |-> bfs_queue]
             ELSE AlignedBfsChildren((bfs_write_pos_i :> other_pos0) @@ bfs_queue,
                                     pos0, bfs_write_pos, i + 1)

\* the 'bfs loop, from bfs_read_pos on
RECURSIVE AlignedBfs(_, _)
AlignedBfs(bfs_queue, bfs_read_pos) ==
    LET pos0 == bfs_queue[bfs_read_pos]
        bfs_write_pos == bfs_read_pos * W + 2
    IN  IF bfs_write_pos >= ALIGNED_BFS_MAX_LEN
        THEN [found |-> FALSE, fate |-> "panic", bfs_queue |-> bfs_queue]
        ELSE LET r == AlignedBfsChildren(bfs_queue, pos0, bfs_write_pos, 0)
             IN  IF r.found
                 THEN [found |-> TRUE, fate |-> "ok",
                       path_index |-> r.path_index,
                       bucket_index |-> r.bucket_index,
                       bfs_queue |-> r.bfs_queue]
                 ELSE AlignedBfs(r.bfs_queue, bfs_read_pos + 1)

\* the `while path_index >= 2` loop: move each parent into its child
RECURSIVE AlignedBacktrack(_, _, _, _, _)
AlignedBacktrack(c, b, bfs_queue, path_index, bucket_index) ==
    IF path_index < 2
    THEN [ctrl |-> c, buckets |-> b, bucket_index |-> bucket_index, moves |-> 0]
    ELSE LET parent_path_index == (path_index - 2) \div W
             parent_bucket_offset == (path_index - 2) % W
             parent_bucket_index == bfs_queue[parent_path_index] + parent_bucket_offset
             r == AlignedBacktrack([c EXCEPT ![bucket_index] = c[parent_bucket_index]],
                                   [b EXCEPT ![bucket_index] = b[parent_bucket_index]],
                                   bfs_queue, parent_path_index, parent_bucket_index)
         IN  [r EXCEPT !.moves = @ + 1]

\* a slip of the kind the two probes invite: the second group is not probed
AlignedExistingFirstGroupOnly(key) ==
    LET pos0 == AlignedPos0(key)
        hit0 == KeyLanes(pos0, GroupLoad(pos0), TagFull(hash_of[key]), key)
    IN  IF hit0 # {} THEN BitAnd(pos0 + SetMin(hit0), bucket_mask) ELSE NoSlot

\* the two probes of insert for the key: the index of its slot, if it has one
AlignedExisting(key) ==
    LET tag_hash == TagFull(hash_of[key])
        pos0 == AlignedPos0(key)
        hit0 == KeyLanes(pos0, GroupLoad(pos0), tag_hash, key)
        pos1 == AlignedPos1(key)
        hit1 == KeyLanes(pos1, GroupLoad(pos1), tag_hash, key)
    IN  IF hit0 # {} THEN BitAnd(pos0 + SetMin(hit0), bucket_mask)
        ELSE IF hit1 # {} THEN BitAnd(pos1 + SetMin(hit1), bucket_mask)
        ELSE NoSlot

\* an insert that goes to the BFS without looking for an EMPTY tag in the
\* second group of the key
AlignedInsertSkipsSecondGroup(key, value) ==
    LET tag_hash == TagFull(hash_of[key])
        pos0 == AlignedPos0(key)
        group0 == GroupLoad(pos0)
        hit_index == AlignedExisting(key)
        bfs == AlignedBfs((0 :> pos0) @@ (1 :> AlignedPos1(key)), 0)
        bt == AlignedBacktrack(ctrl, buckets, bfs.bfs_queue, bfs.path_index,
                               bfs.bucket_index)
        placed(c, b, bucket_index, moves) ==
            [ctrl |-> [c EXCEPT ![bucket_index] = tag_hash],
             buckets |-> [b EXCEPT ![bucket_index] = [key |-> key, val |-> value]],
             items |-> items + 1, fate |-> "ok",
             inserted |-> TRUE, index |-> bucket_index, moves |-> moves]
    IN  IF hit_index # NoSlot
        THEN [ctrl |-> ctrl,
              buckets |-> [buckets EXCEPT ![hit_index].val = value],
              items |-> items, fate |-> "ok",
              inserted |-> FALSE, index |-> hit_index, moves |-> 0]
        ELSE IF match_empty(group0) # {}
        THEN placed(ctrl, buckets,
                    BitAnd(pos0 + SetMin(match_empty(group0)), bucket_mask), 0)
        ELSE IF bfs.fate = "panic"
        THEN NeedToRehash(items + 1)
        ELSE placed(bt.ctrl, bt.buckets, bt.bucket_index, bt.moves)

\* HashTable::insert: the state it leaves and what it returns
AlignedInsertResult(key, value) ==
    LET hash0 == hash_of[key]
        tag_hash == TagFull(hash0)
        pos0 == AlignedPos0(key)
        group0 == GroupLoad(pos0)
        pos1 == AlignedPos1(key)
        group1 == GroupLoad(pos1)
        hit_index == AlignedExisting(key)
        bfs == AlignedBfs((0 :> pos0) @@ (1 :> pos1), 0)
        bt == AlignedBacktrack(ctrl, buckets, bfs.bfs_queue, bfs.path_index,
                               bfs.bucket_index)
        placed(c, b, bucket_index, moves) ==
            [ctrl |-> [c EXCEPT ![bucket_index] = tag_hash],
             buckets |-> [b EXCEPT ![bucket_index] = [key |-> key, val |-> value]],
             items |-> items + 1, fate |-> "ok",
             inserted |-> TRUE, index |-> bucket_index, moves |-> moves]
    IN  IF hit_index # NoSlot
        THEN [ctrl |-> ctrl,
              buckets |-> [buckets EXCEPT ![hit_index].val = value],
              items |-> items, fate |-> "ok",
              inserted |-> FALSE, index |-> hit_index, moves |-> 0]
        ELSE IF match_empty(group0) # {}
        THEN placed(ctrl, buckets,
                    BitAnd(pos0 + SetMin(match_empty(group0)), bucket_mask), 0)
        ELSE IF match_empty(group1) # {}
        THEN placed(ctrl, buckets,
                    BitAnd(pos1 + SetMin(match_empty(group1)), bucket_mask), 0)
        ELSE IF bfs.fate = "panic"
        THEN NeedToRehash(items + 1)
        ELSE placed(bt.ctrl, bt.buckets, bt.bucket_index, bt.moves)

\* a slip of the kind the two probes invite: get stops after the first group
AlignedGetFirstGroupOnly(key) ==
    LET pos0 == AlignedPos0(key)
        hit0 == KeyLanes(pos0, GroupLoad(pos0), TagFull(hash_of[key]), key)
    IN  IF hit0 # {} THEN buckets[BitAnd(pos0 + SetMin(hit0), bucket_mask)].val
        ELSE None

\* HashTable::get: the value found, or None
AlignedGet(key) ==
    LET tag_hash == TagFull(hash_of[key])
        pos0 == AlignedPos0(key)
        hit0 == KeyLanes(pos0, GroupLoad(pos0), tag_hash, key)
        pos1 == AlignedPos1(key)
        hit1 == KeyLanes(pos1, GroupLoad(pos1), tag_hash, key)
    IN  IF hit0 # {} THEN buckets[BitAnd(pos0 + SetMin(hit0), bucket_mask)].val
        ELSE IF hit1 # {} THEN buckets[BitAnd(pos1 + SetMin(hit1), bucket_mask)].val
        ELSE None

\* the erase policy the cuckoo tables could do with: always EMPTY
EraseTagAlwaysEmpty(index, past) == EMPTY

\* the tag erase_index writes at `index`; `past` is the memory behind the
\* tag array, which the two unaligned group loads may read
EraseTag(index, past) ==
    LET index_before == BitAnd(WrappingSub(index, W), bucket_mask)
        empty_before == match_empty(GroupLoadPast(index_before, past))
        empty_after == match_empty(GroupLoadPast(index, past))
    IN  IF leading_zeros(empty_before) + trailing_zeros(empty_after) >= W
        THEN DELETED
        ELSE EMPTY

\* ------------------------------------------------------------------ unaligned cuckoo table

UNALIGNED_BFS_MAX_LEN == 2 * (1 + 2 * W + 2 * W * W + 2 * W * W * W)

\* set_ctrl of the unaligned table: the tag and its replica
UnalignedSetCtrl(c, index, tag) ==
    LET other_index == BitAnd(WrappingSub(index, W), bucket_mask) + W
    IN  [[c EXCEPT ![index] = tag] EXCEPT ![other_index] = tag]

UnalignedPos0(key) == pos_of(hash_of[key], bucket_mask)

UnalignedPos1(key) == pos_of(RotateLeftHalf(hash_of[key]), bucket_mask)

\* the two `for i in 0..N` loops: the alternatives of the occupants of the
\* window at `pos`, written from bfs_write_pos + base on, from iteration i on
RECURSIVE UnalignedBfsChildren(_, _, _, _)
UnalignedBfsChildren(bfs_queue, pos, base, i) ==
    IF i = W THEN bfs_queue
    ELSE LET bucket_idx == BitAnd(pos + i, bucket_mask)
             rehash == hash_of[buckets[bucket_idx].key]
             alt_pos0 == pos_of(rehash, bucket_mask)
             alt_pos1 == pos_of(RotateLeftHalf(rehash), bucket_mask)
         IN  UnalignedBfsChildren(
                 ((base + i * 2) :> alt_pos0) @@ ((base + i * 2 + 1) :> alt_pos1)
                     @@ bfs_queue,
                 pos, base, i + 1)

\* a BFS that writes the children of every pair it reads, without asking
\* whether the queue has room for them
RECURSIVE UnalignedBfsWritesUnguarded(_, _)
UnalignedBfsWritesUnguarded(bfs_queue, bfs_read_pos) ==
    LET pos0 == bfs_queue[bfs_read_pos]
        pos1 == bfs_queue[bfs_read_pos + 1]
        empty0 == match_empty(GroupLoad(pos0))
        empty1 == match_empty(GroupLoad(pos1))
        bfs_write_pos == bfs_read_pos * 2 * W + 2
        written ==
            UnalignedBfsChildren(
                UnalignedBfsChildren(bfs_queue, pos0, bfs_write_pos, 0),
                pos1, bfs_write_pos + 2 * W, 0)
    IN  IF empty0 # {}
        THEN [fate |-> "ok", path_index |-> bfs_read_pos,
              bucket_index |-> BitAnd(pos0 + SetMin(empty0), bucket_mask),
              bfs_queue |-> bfs_queue]
        ELSE IF empty1 # {}
        THEN [fate |-> "ok", path_index |-> bfs_read_pos + 1,
              bucket_index |-> BitAnd(pos1 + SetMin(empty1), bucket_mask),
              bfs_queue |-> bfs_queue]
        ELSE IF bfs_read_pos + 2 + 2 > UNALIGNED_BFS_MAX_LEN
        THEN [fate |-> "panic", path_index |-> 0, bucket_index |-> 0,
              bfs_queue |-> written]
        ELSE UnalignedBfsWritesUnguarded(written, bfs_read_pos + 2)

\* the BFS loop, from the pair at bfs_read_pos on
RECURSIVE UnalignedBfs(_, _)
UnalignedBfs(bfs_queue, bfs_read_pos) ==
    LET pos0 == bfs_queue[bfs_read_pos]
        pos1 == bfs_queue[bfs_read_pos + 1]
        empty0 == match_empty(GroupLoad(pos0))
        empty1 == match_empty(GroupLoad(pos1))
        bfs_write_pos == bfs_read_pos * 2 * W + 2
        written ==
            IF bfs_write_pos + 2 * 2 * W <= UNALIGNED_BFS_MAX_LEN
            THEN UnalignedBfsChildren(
                     UnalignedBfsChildren(bfs_queue, pos0, bfs_write_pos, 0),
                     pos1, bfs_write_pos + 2 * W, 0)
            ELSE bfs_queue
    IN  IF empty0 # {}
        THEN [fate |-> "ok", path_index |-> bfs_read_pos,
              bucket_index |-> BitAnd(pos0 + SetMin(empty0), bucket_mask),
              bfs_queue |-> bfs_queue]
        ELSE IF empty1 # {}
        THEN [fate |-> "ok", path_index |-> bfs_read_pos + 1,
              bucket_index |-> BitAnd(pos1 + SetMin(empty1), bucket_mask),
              bfs_queue |-> bfs_queue]
        ELSE IF bfs_read_pos + 2 + 2 > UNALIGNED_BFS_MAX_LEN
        THEN [fate |-> "panic", path_index |-> 0, bucket_index |-> 0,
              bfs_queue |-> written]
        ELSE UnalignedBfs(written, bfs_read_pos + 2)

\* a backtrack that moves nothing: the new entry goes into the empty slot the
\* search found, however far from the root
UnalignedBacktrackStaysAtLeaf(c, b, bfs_queue, path_index, bucket_index) ==
    [ctrl |-> c, buckets |-> b, bucket_index |-> bucket_index,
     moves |-> IF path_index < 2 THEN 0 ELSE 1, writes |-> <<>>]

\* the backtrack loop: move each parent into its child; `writes` lists the
\* writes in program order, the slot of the child before the tag of the child
RECURSIVE UnalignedBacktrack(_, _, _, _, _)
UnalignedBacktrack(c, b, bfs_queue, path_index, bucket_index) ==
    IF path_index < 2
    THEN [ctrl |-> c, buckets |-> b, bucket_index |-> bucket_index, moves |-> 0,
          writes |-> <<>>]
    ELSE LET parent_path_index == (path_index - 2) \div (2 * W)
             parent_bucket_offset == (path_index - 2) % (2 * W)
             parent_window_index == parent_bucket_offset \div (2 * W)
             parent_bucket_in_window == (parent_bucket_offset % (2 * W)) \div 2
             parent_pos == bfs_queue[parent_path_index + parent_window_index]
             parent_bucket_index ==
                 BitAnd(parent_pos + parent_bucket_in_window, bucket_mask)
             r == UnalignedBacktrack(
                      UnalignedSetCtrl(c, bucket_index, c[parent_bucket_index]),
                      [b EXCEPT ![bucket_index] = b[parent_bucket_index]],
                      bfs_queue, parent_path_index + parent_window_index,
                      parent_bucket_index)
             moved == [index |-> bucket_index, from |-> parent_bucket_index]
         IN  [r EXCEPT !.moves = @ + 1,
                       !.writes = <<[kind |-> "slot"] @@ moved,
                                    [kind |-> "tag"] @@ moved>> \o @]

\* `writes` lists the writes of the call in program order; `from` is the slot
\* a write copies, NoSlot when it writes the key, value or tag of the call
UnalignedInsertResult(key, value) ==
    LET hash0 == hash_of[key]
        tag_hash == TagFull(hash0)
        pos0 == UnalignedPos0(key)
        group0 == GroupLoad(pos0)
        hit0 == KeyLanes(pos0, group0, tag_hash, key)
        pos1 == UnalignedPos1(key)
        group1 == GroupLoad(pos1)
        hit1 == KeyLanes(pos1, group1, tag_hash, key)
        hit_index == IF hit0 # {} THEN BitAnd(pos0 + SetMin(hit0), bucket_mask)
                     ELSE BitAnd(pos1 + SetMin(hit1), bucket_mask)
        bfs == UnalignedBfs((0 :> pos0) @@ (1 :> pos1), 0)
        bt == UnalignedBacktrack(ctrl, buckets, bfs.bfs_queue, bfs.path_index,
                                 bfs.bucket_index)
        placed(c, b, bucket_index, moves, writes) ==
            [ctrl |-> UnalignedSetCtrl(c, bucket_index, tag_hash),
             buckets |-> [b EXCEPT ![bucket_index] = [key |-> key, val |-> value]],
             items |-> items + 1, fate |-> "ok",
             inserted |-> TRUE, index |-> bucket_index, moves |-> moves,
             writes |-> writes]
        own(kind, index) == [kind |-> kind, index |-> index, from |-> NoSlot]
        insert_slot == BitAnd(pos0 + SetMin(match_empty(group0)), bucket_mask)
    IN  IF hit0 # {} \/ hit1 # {}
        THEN [ctrl |-> ctrl,
              buckets |-> [buckets EXCEPT ![hit_index].val = value],
              items |-> items, fate |-> "ok",
              inserted |-> FALSE, index |-> hit_index, moves |-> 0,
              writes |-> <<own("value", hit_index)>>]
        ELSE IF match_empty(group0) # {}
        THEN placed(ctrl, buckets, insert_slot, 0,
                    <<own("tag", insert_slot), own("slot", insert_slot)>>)
        ELSE IF bfs.fate = "panic"
        THEN NeedToRehash(items) @@ [writes |-> <<>>]
        ELSE placed(bt.ctrl, bt.buckets, bt.bucket_index, bt.moves,
                    bt.writes \o <<own("slot", bt.bucket_index),
                                   own("tag", bt.bucket_index)>>)

\* HashTable::get with ALLOW_EARLY_RETURN = true
UnalignedGet(key) ==
    LET tag_hash == TagFull(hash_of[key])
        pos0 == UnalignedPos0(key)
        group0 == GroupLoad(pos0)
        hit0 == KeyLanes(pos0, group0, tag_hash, key)
        pos1 == UnalignedPos1(key)
        hit1 == KeyLanes(pos1, GroupLoad(pos1), tag_hash, key)
    IN  IF hit0 # {} THEN buckets[BitAnd(pos0 + SetMin(hit0), bucket_mask)].val
        ELSE IF any_bit_set(match_empty(group0)) THEN None
        ELSE IF hit1 # {} THEN buckets[BitAnd(pos1 + SetMin(hit1), bucket_mask)].val
        ELSE None

\* ------------------------------------------------------------------ aligned double hashing table

\* a call that never returns: get on a probe sequence without an EMPTY tag
NoReturn == 0 - 1

\* probe_seq(hash64)
ProbeSeqPos(hash) == pos_of(hash, aligned_bucket_mask)

\* a stride without `| Group::WIDTH`: it may be 0 or an even number of groups
ProbeSeqStrideEven(hash) == BitAnd(RotateLeftHalf(hash), aligned_bucket_mask)

ProbeSeqStride(hash) == BitOr(BitAnd(RotateLeftHalf(hash), aligned_bucket_mask), W)

\* ProbeSeq::move_next: the position after the step
MoveNext(pos, stride) == BitAnd(pos + stride, bucket_mask)

\* the number of groups of the table: a probe sequence that has made this
\* many steps has been through its whole cycle and repeats it from then on
ProbeCycle == num_buckets \div W

\* the loop of insert from the group at pos on; debug is whether the build
\* has debug assertions
RECURSIVE DoubleInsertLoop(_, _, _, _, _, _, _)
DoubleInsertLoop(key, value, pos, stride, insert_slot, steps, debug) ==
    LET tag_hash == TagFull(hash_of[key])
        group == GroupLoad(pos)
        hit == KeyLanes(pos, group, tag_hash, key)
        hit_index == BitAnd(pos + SetMin(hit), bucket_mask)
        free == match_empty_or_deleted(group)
        slot == IF insert_slot = NoSlot /\ free # {} THEN pos + SetMin(free)
                ELSE insert_slot
        masked_slot == BitAnd(slot, bucket_mask)
        stays == [ctrl |-> ctrl, buckets |-> buckets, items |-> items,
                  inserted |-> FALSE, index |-> 0, moves |-> 0]
    IN  IF hit # {}
        THEN [ctrl |-> ctrl,
              buckets |-> [buckets EXCEPT ![hit_index].val = value],
              items |-> items, fate |-> "ok",
              inserted |-> FALSE, index |-> hit_index, moves |-> 0]
        ELSE IF slot # NoSlot /\ any_bit_set(match_empty(group))
        THEN [ctrl |-> [ctrl EXCEPT ![masked_slot] = tag_hash],
              buckets |-> [buckets EXCEPT ![masked_slot] = [key |-> key, val |-> value]],
              items |-> items + 1, fate |-> "ok",
              inserted |-> TRUE, index |-> masked_slot, moves |-> 0]
        ELSE IF debug /\ stride > bucket_mask
        THEN stays @@ [fate |-> "panic"]
        ELSE IF steps + 1 >= ProbeCycle
        THEN stays @@ [fate |-> "hang"]
        ELSE DoubleInsertLoop(key, value, MoveNext(pos, stride), stride, slot,
                              steps + 1, debug)

DoubleInsertResult(key, value, debug) ==
    DoubleInsertLoop(key, value, ProbeSeqPos(hash_of[key]),
                     ProbeSeqStride(hash_of[key]), NoSlot, 0, debug)

\* the loop of get from the group at pos on
RECURSIVE DoubleGetLoop(_, _, _, _)
DoubleGetLoop(key, pos, stride, steps) ==
    LET group == GroupLoad(pos)
        hit == KeyLanes(pos, group, TagFull(hash_of[key]), key)
    IN  IF hit # {} THEN buckets[BitAnd(pos + SetMin(hit), bucket_mask)].val
        ELSE IF any_bit_set(match_empty(group)) THEN None
        ELSE IF steps + 1 >= ProbeCycle THEN NoReturn
        ELSE DoubleGetLoop(key, MoveNext(pos, stride), stride, steps + 1)

DoubleGet(key) ==
    DoubleGetLoop(key, ProbeSeqPos(hash_of[key]), ProbeSeqStride(hash_of[key]), 0)

\* ------------------------------------------------------------------ direct SIMD cuckoo table

\* BUCKET_SIZE, the key lanes of a bucket (4 in the source)
DIRECT_BUCKET_SIZE == 2

DIRECT_BFS_MAX_LEN ==
    2 * (1 + DIRECT_BUCKET_SIZE + DIRECT_BUCKET_SIZE * DIRECT_BUCKET_SIZE
           + DIRECT_BUCKET_SIZE * DIRECT_BUCKET_SIZE * DIRECT_BUCKET_SIZE)

\* usize::div_ceil
DivCeil(a, b) == (a + b - 1) \div b

\* num_buckets of the direct SIMD tables
DirectNumBuckets(capacity) ==
    DivCeil(NextPowerOfTwo((capacity * 8) \div 7), DIRECT_BUCKET_SIZE)

\* the slot of lane `offset` of bucket `bucket_index`
DirectSlot(bucket_index, offset) == bucket_index * DIRECT_BUCKET_SIZE + offset

\* table[pos].keys in the slots b
DirectKeys(b, pos) ==
    [i \in 0 .. (DIRECT_BUCKET_SIZE - 1) |-> b[DirectSlot(pos, i)].key]

\* control64::search_mask(key, keys) followed by trailing_zeros / stride:
\* the lowest lane that holds the key, if there is one
search_mask(key, keys) ==
    LET lanes == {i \in DOMAIN keys : keys[i] = key}
    IN  IF lanes = {} THEN NoSlot ELSE SetMin(lanes)

DirectPos0(key) == BitAnd(hash_of[key], bucket_mask)

DirectPos1(key) ==
    BitAnd(BitXor(hash_of[key], RotateLeftHalf(hash_of[key])), bucket_mask)

\* an other_pos that derives the alternative bucket from the fingerprint, as
\* the tables with tags do
DirectOtherPosByTag(pos, key) ==
    BitXor(pos, BitAnd(ScrambleTag(TagFull(hash_of[key])), bucket_mask))

\* the closure other_pos of the BFS
DirectOtherPos(pos, key) ==
    BitXor(pos, BitAnd(RotateLeftHalf(hash_of[key]), bucket_mask))

\* the 'bfs loop from bfs_read_pos on; `turns` counts the turns the loop
\* may still take before it counts as never leaving
RECURSIVE DirectBfs(_, _, _)
DirectBfs(bfs_queue, bfs_read_pos, turns) ==
    LET pos0 == bfs_queue[bfs_read_pos]
        pos1 == bfs_queue[bfs_read_pos + 1]
        keys0 == DirectKeys(buckets, pos0)
        keys1 == DirectKeys(buckets, pos1)
        bfs_write_pos == bfs_read_pos * DIRECT_BUCKET_SIZE + 2
        children ==
            [j \in bfs_write_pos .. (bfs_write_pos + 2 * DIRECT_BUCKET_SIZE - 1) |->
                IF j < bfs_write_pos + DIRECT_BUCKET_SIZE
                THEN DirectOtherPos(pos0, keys0[j - bfs_write_pos])
                ELSE DirectOtherPos(pos1, keys1[j - bfs_write_pos - DIRECT_BUCKET_SIZE])]
        written == IF bfs_write_pos < DIRECT_BFS_MAX_LEN THEN children @@ bfs_queue
                   ELSE bfs_queue
    IN  IF turns = 0
        THEN [fate |-> "hang"]
        ELSE IF search_mask(0, keys0) # NoSlot
        THEN [fate |-> "ok", path_index |-> bfs_read_pos, bucket_index |-> pos0,
              bucket_offset |-> search_mask(0, keys0), bfs_queue |-> bfs_queue]
        ELSE IF search_mask(0, keys1) # NoSlot
        THEN [fate |-> "ok", path_index |-> bfs_read_pos + 1, bucket_index |-> pos1,
              bucket_offset |-> search_mask(0, keys1), bfs_queue |-> bfs_queue]
        ELSE IF bfs_read_pos + 2 + 2 > DIRECT_BFS_MAX_LEN
        THEN [fate |-> "panic", bfs_queue |-> written]
        ELSE DirectBfs(written, bfs_read_pos + 2, turns - 1)

\* the `while path_index >= 2` loop: move each parent into its child
RECURSIVE DirectBacktrack(_, _, _, _, _)
DirectBacktrack(b, bfs_queue, path_index, bucket_index, bucket_offset) ==
    IF path_index < 2
    THEN [buckets |-> b, bucket_index |-> bucket_index,
          bucket_offset |-> bucket_offset, moves |-> 0]
    ELSE LET parent_path_index == (path_index - 2) \div DIRECT_BUCKET_SIZE
             parent_bucket_offset == (path_index - 2) % DIRECT_BUCKET_SIZE
             parent_bucket_index == bfs_queue[parent_path_index]
             r == DirectBacktrack(
                      [b EXCEPT ![DirectSlot(bucket_index, bucket_offset)] =
                          b[DirectSlot(parent_bucket_index, parent_bucket_offset)]],
                      bfs_queue, parent_path_index,
                      parent_bucket_index, parent_bucket_offset)
         IN  [r EXCEPT !.moves = @ + 1]

\* HashTable::insert for a key other than 0
DirectInsertResult(key, value) ==
    LET pos0 == DirectPos0(key)
        pos1 == DirectPos1(key)
        hit0 == search_mask(key, DirectKeys(buckets, pos0))
        hit1 == search_mask(key, DirectKeys(buckets, pos1))
        existing == IF hit0 # NoSlot THEN DirectSlot(pos0, hit0)
                    ELSE DirectSlot(pos1, hit1)
        bfs == DirectBfs((0 :> pos0) @@ (1 :> pos1), 0, DIRECT_BFS_MAX_LEN)
        bt == DirectBacktrack(buckets, bfs.bfs_queue, bfs.path_index,
                              bfs.bucket_index, bfs.bucket_offset)
        slot == DirectSlot(bt.bucket_index, bt.bucket_offset)
    IN  IF hit0 # NoSlot \/ hit1 # NoSlot
        THEN [ctrl |-> ctrl,
              buckets |-> [buckets EXCEPT ![existing].val = value],
              items |-> items, fate |-> "ok",
              inserted |-> FALSE, index |-> existing, moves |-> 0]
        ELSE IF bfs.fate = "panic"
        THEN NeedToRehash(items + 1)
        ELSE IF bfs.fate = "hang"
        THEN [NeedToRehash(items + 1) EXCEPT !.fate = "hang"]
        ELSE [ctrl |-> ctrl,
              buckets |-> [bt.buckets EXCEPT ![slot] = [key |-> key, val |-> value]],
              items |-> items + 1, fate |-> "ok",
              inserted |-> TRUE, index |-> slot, moves |-> bt.moves]

\* HashTable::get (BRANCHLESS): both buckets are searched, the later hit stays
DirectGet(key) ==
    IF key = 0 THEN zero_value
    ELSE LET pos0 == DirectPos0(key)
             pos1 == DirectPos1(key)
             hit0 == search_mask(key, DirectKeys(buckets, pos0))
             hit1 == search_mask(key, DirectKeys(buckets, pos1))
         IN  IF hit1 # NoSlot THEN buckets[DirectSlot(pos1, hit1)].val
             ELSE IF hit0 # NoSlot THEN buckets[DirectSlot(pos0, hit0)].val
             ELSE None

\* ------------------------------------------------------------------ localized SIMD cuckoo table

\* BUCKET_SIZE: insert and get assert Group::WIDTH == BUCKET_SIZE + 1
LOCALIZED_BUCKET_SIZE == W - 1

\* size_of::<Bucket<V>>(), a power of two (128 in the source): positions of
\* this table are byte offsets of buckets
LOCALIZED_BUCKET_BYTES == 2

LOCALIZED_BFS_MAX_LEN ==
    2 * (1 + LOCALIZED_BUCKET_SIZE + LOCALIZED_BUCKET_SIZE * LOCALIZED_BUCKET_SIZE
           + LOCALIZED_BUCKET_SIZE * LOCALIZED_BUCKET_SIZE * LOCALIZED_BUCKET_SIZE)

\* num_buckets of the localized SIMD table
LocalizedNumBuckets(capacity) ==
    NextPowerOfTwo(DivCeil((capacity * 8) \div 7, LOCALIZED_BUCKET_SIZE + 1))

\* self.bucket(masked_position): the number of the bucket at that offset
LocalizedBucket(masked_position) == masked_position \div LOCALIZED_BUCKET_BYTES

\* the index of fprints[i] of the bucket at pos in the tags of the table
LocalizedTag(pos, i) == LocalizedBucket(pos) * (LOCALIZED_BUCKET_SIZE + 1) + i

\* the slot of keys[i] and values[i] of the bucket at pos
LocalizedSlot(pos, i) == LocalizedBucket(pos) * LOCALIZED_BUCKET_SIZE + i

\* Group::load(bucket.fprints.as_ptr().cast())
LocalizedGroup(pos) == [i \in 0 .. (W - 1) |-> ctrl[LocalizedTag(pos, i)]]

LocalizedPos0(key) == BitAnd(hash_of[key], bucket_mask)

LocalizedPos1(key) ==
    BitAnd(BitXor(hash_of[key], ScrambleTag(TagFull(hash_of[key]))), bucket_mask)

\* the closure other_pos of the BFS, for lane i of the bucket at pos
LocalizedOtherPos(pos, i) ==
    BitXor(pos, BitAnd(ScrambleTag(ctrl[LocalizedTag(pos, i)]), bucket_mask))

\* the lanes of a bucket whose tag matches and whose key is `key`
LocalizedKeyLanes(pos, tag, key) ==
    {bit \in match_tag(LocalizedGroup(pos), tag) :
        buckets[LocalizedSlot(pos, bit)].key = key}

\* the 'bfs loop from bfs_read_pos on; `turns` counts the turns the loop
\* may still take before it counts as never leaving
RECURSIVE LocalizedBfs(_, _, _)
LocalizedBfs(bfs_queue, bfs_read_pos, turns) ==
    LET pos0 == bfs_queue[bfs_read_pos]
        pos1 == bfs_queue[bfs_read_pos + 1]
        empty0 == match_empty(LocalizedGroup(pos0))
        empty1 == match_empty(LocalizedGroup(pos1))
        bfs_write_pos == bfs_read_pos * LOCALIZED_BUCKET_SIZE + 2
        children ==
            [j \in bfs_write_pos .. (bfs_write_pos + 2 * LOCALIZED_BUCKET_SIZE - 1) |->
                IF j < bfs_write_pos + LOCALIZED_BUCKET_SIZE
                THEN LocalizedOtherPos(pos0, j - bfs_write_pos)
                ELSE LocalizedOtherPos(pos1, j - bfs_write_pos - LOCALIZED_BUCKET_SIZE)]
        written == IF bfs_write_pos < LOCALIZED_BFS_MAX_LEN THEN children @@ bfs_queue
                   ELSE bfs_queue
    IN  IF turns = 0
        THEN [fate |-> "hang"]
        ELSE IF empty0 # {}
        THEN [fate |-> "ok", path_index |-> bfs_read_pos, bucket_index |-> pos0,
              bucket_offset |-> SetMin(empty0), bfs_queue |-> bfs_queue]
        ELSE IF empty1 # {}
        THEN [fate |-> "ok", path_index |-> bfs_read_pos + 1, bucket_index |-> pos1,
              bucket_offset |-> SetMin(empty1), bfs_queue |-> bfs_queue]
        ELSE IF bfs_read_pos + 2 + 2 > LOCALIZED_BFS_MAX_LEN
        THEN [fate |-> "panic", bfs_queue |-> written]
        ELSE LocalizedBfs(written, bfs_read_pos + 2, turns - 1)

\* a move that copies key and value of the parent and forgets its tag
RECURSIVE LocalizedBacktrackNoTag(_, _, _, _, _, _)
LocalizedBacktrackNoTag(c, b, bfs_queue, path_index, bucket_index, bucket_offset) ==
    IF path_index < 2
    THEN [ctrl |-> c, buckets |-> b, bucket_index |-> bucket_index,
          bucket_offset |-> bucket_offset, moves |-> 0]
    ELSE LET parent_path_index == (path_index - 2) \div LOCALIZED_BUCKET_SIZE
             parent_bucket_offset == (path_index - 2) % LOCALIZED_BUCKET_SIZE
             parent_bucket_index == bfs_queue[parent_path_index]
             r == LocalizedBacktrackNoTag(
                      c,
                      [b EXCEPT ![LocalizedSlot(bucket_index, bucket_offset)] =
                          b[LocalizedSlot(parent_bucket_index, parent_bucket_offset)]],
                      bfs_queue, parent_path_index,
                      parent_bucket_index, parent_bucket_offset)
         IN  [r EXCEPT !.moves = @ + 1]

\* the `while path_index >= 2` loop: move each parent into its child
RECURSIVE LocalizedBacktrack(_, _, _, _, _, _)
LocalizedBacktrack(c, b, bfs_queue, path_index, bucket_index, bucket_offset) ==
    IF path_index < 2
    THEN [ctrl |-> c, buckets |-> b, bucket_index |-> bucket_index,
          bucket_offset |-> bucket_offset, moves |-> 0]
    ELSE LET parent_path_index == (path_index - 2) \div LOCALIZED_BUCKET_SIZE
             parent_bucket_offset == (path_index - 2) % LOCALIZED_BUCKET_SIZE
             parent_bucket_index == bfs_queue[parent_path_index]
             r == LocalizedBacktrack(
                      [c EXCEPT ![LocalizedTag(bucket_index, bucket_offset)] =
                          c[LocalizedTag(parent_bucket_index, parent_bucket_offset)]],
                      [b EXCEPT ![LocalizedSlot(bucket_index, bucket_offset)] =
                          b[LocalizedSlot(parent_bucket_index, parent_bucket_offset)]],
                      bfs_queue, parent_path_index,
                      parent_bucket_index, parent_bucket_offset)
         IN  [r EXCEPT !.moves = @ + 1]

\* HashTable::insert
LocalizedInsertResult(key, value) ==
    LET tag_hash == TagFull(hash_of[key])
        pos0 == LocalizedPos0(key)
        pos1 == LocalizedPos1(key)
        hit0 == LocalizedKeyLanes(pos0, tag_hash, key)
        hit1 == LocalizedKeyLanes(pos1, tag_hash, key)
        existing == IF hit0 # {} THEN LocalizedSlot(pos0, SetMin(hit0))
                    ELSE LocalizedSlot(pos1, SetMin(hit1))
        bfs == LocalizedBfs((0 :> pos0) @@ (1 :> pos1), 0, LOCALIZED_BFS_MAX_LEN)
        bt == LocalizedBacktrack(ctrl, buckets, bfs.bfs_queue, bfs.path_index,
                                 bfs.bucket_index, bfs.bucket_offset)
        slot == LocalizedSlot(bt.bucket_index, bt.bucket_offset)
    IN  IF hit0 # {} \/ hit1 # {}
        THEN [ctrl |-> ctrl,
              buckets |-> [buckets EXCEPT ![existing].val = value],
              items |-> items, fate |-> "ok",
              inserted |-> FALSE, index |-> existing, moves |-> 0]
        ELSE IF bfs.fate = "panic"
        THEN NeedToRehash(items + 1)
        ELSE IF bfs.fate = "hang"
        THEN [NeedToRehash(items + 1) EXCEPT !.fate = "hang"]
        ELSE [ctrl |-> [bt.ctrl EXCEPT
                           ![LocalizedTag(bt.bucket_index, bt.bucket_offset)] = tag_hash],
              buckets |-> [bt.buckets EXCEPT ![slot] = [key |-> key, val |-> value]],
              items |-> items + 1, fate |-> "ok",
              inserted |-> TRUE, index |-> slot, moves |-> bt.moves]

\* HashTable::get: both buckets are probed
LocalizedGet(key) ==
    LET tag_hash == TagFull(hash_of[key])
        pos0 == LocalizedPos0(key)
        pos1 == LocalizedPos1(key)
        hit0 == LocalizedKeyLanes(pos0, tag_hash, key)
        hit1 == LocalizedKeyLanes(pos1, tag_hash, key)
    IN  IF hit0 # {} THEN buckets[LocalizedSlot(pos0, SetMin(hit0))].val
        ELSE IF hit1 # {} THEN buckets[LocalizedSlot(pos1, SetMin(hit1))].val
        ELSE None

\* ------------------------------------------------------------------ the tables under test

\* the sizes with_capacity gives for the capacities of the model
TableSizes == {NumBuckets(c) : c \in 0 .. MaxTableCapacity}

\* with_capacity of the aligned tables computes num_buckets - Group::WIDTH,
\* which has no value below zero: the tables it builds have a whole group
AlignedTableSizes == {n \in TableSizes : n >= W}

\* every assignment of hashes to keys, up to renaming the keys
HashAssignments ==
    {f \in [Keys -> Hashes] : \A j, k \in Keys : j <= k => f[j] <= f[k]}

InitAligned(n) ==
    /\ variant = "aligned"
    /\ bucket_mask = n - 1
    /\ aligned_bucket_mask = n - W
    /\ ctrl = [i \in 0 .. (n - 1) |-> EMPTY]
    /\ buckets = [i \in 0 .. (n - 1) |-> EmptyBucket]
    /\ items = 0

\* the unaligned table has no aligned_bucket_mask; its tag array has W replicas
InitUnaligned(n) ==
    /\ variant = "unaligned"
    /\ bucket_mask = n - 1
    /\ aligned_bucket_mask = 0
    /\ ctrl = [i \in 0 .. (n + W - 1) |-> EMPTY]
    /\ buckets = [i \in 0 .. (n - 1) |-> EmptyBucket]
    /\ items = 0

InitCommon ==
    /\ hash_of \in HashAssignments
    /\ zero_value = None
    /\ std_map = [k \in AllKeys |-> None]
    /\ ret = [op |-> "with_capacity", key |-> Uninit, val |-> Uninit,
              inserted |-> FALSE, index |-> 0, moves |-> 0]
    /\ status = "ready"
    /\ ops = 0
    /\ pending = NoWrites
    /\ destructed = [value \in OwnedValues |-> 0]

\* the double hashing table has the fields and the tag array of the aligned
\* cuckoo table
InitDouble(n) ==
    /\ variant = "double"
    /\ bucket_mask = n - 1
    /\ aligned_bucket_mask = n - W
    /\ ctrl = [i \in 0 .. (n - 1) |-> EMPTY]
    /\ buckets = [i \in 0 .. (n - 1) |-> EmptyBucket]
    /\ items = 0

Init ==
    /\ \/ \E n \in AlignedTableSizes : InitAligned(n)
       \/ \E n \in TableSizes : InitUnaligned(n)
       \/ \E n \in AlignedTableSizes : InitDouble(n)
    /\ InitCommon

\* a call is made on a live table, within the number of calls of the model
CanCall(v) == status = "ready" /\ variant = v /\ ops < MaxOps

\* what every insert does to the table, given the result computed above
InsertEffects(key, value, r) ==
    /\ ctrl' = r.ctrl
    /\ buckets' = r.buckets
    /\ items' = r.items
    /\ status' = CASE r.fate = "ok" -> "ready"
                    [] r.fate = "panic" -> "panicked"
                    [] r.fate = "hang" -> "hung"
    /\ ret' = [op |-> IF r.fate # "ok" THEN r.fate ELSE "insert",
               key |-> key, val |-> value,
               inserted |-> r.inserted, index |-> r.index, moves |-> r.moves]
    /\ std_map' = IF r.fate # "ok" THEN std_map ELSE [std_map EXCEPT ![key] = value]
    /\ ops' = ops + 1
    /\ UNCHANGED <<pending, variant, bucket_mask, aligned_bucket_mask, zero_value,
                   hash_of>>

\* insert with a value that has no destructor (u64 in the tests and benchmarks)
ApplyInsert(key, value, r) ==
    /\ InsertEffects(key, value, r)
    /\ UNCHANGED destructed

AlignedInsert(key, value) ==
    /\ CanCall("aligned")
    /\ ApplyInsert(key, value, AlignedInsertResult(key, value))

UnalignedInsert(key, value) ==
    /\ CanCall("unaligned")
    /\ ApplyInsert(key, value, UnalignedInsertResult(key, value))

DoubleInsert(key, value) ==
    /\ CanCall("double")
    /\ \E debug \in BOOLEAN :
          ApplyInsert(key, value, DoubleInsertResult(key, value, debug))

\* erase_index(index) on a FULL slot: c is the tag array it leaves
ApplyErase(index, c) ==
    /\ ctrl' = c
    /\ items' = items - 1
    /\ std_map' = [std_map EXCEPT ![buckets[index].key] = None]
    /\ ret' = [op |-> "erase_index", key |-> buckets[index].key, val |-> Uninit,
               inserted |-> FALSE, index |-> index, moves |-> 0]
    /\ ops' = ops + 1
    /\ UNCHANGED <<pending, destructed,
                   variant, bucket_mask, aligned_bucket_mask, buckets, zero_value,
                   hash_of, status>>

\* the memory behind the tag array: W - 1 bytes are within reach of the loads
PastTags == [0 .. (W - 2) -> Tags]

AlignedEraseIndex(index) ==
    /\ CanCall("aligned")
    /\ is_full(ctrl[index])
    /\ \E past \in PastTags :
          ApplyErase(index, [ctrl EXCEPT ![index] = EraseTag(index, past)])

\* the loads of the unaligned table stay inside its tag array
UnalignedEraseIndex(index) ==
    /\ CanCall("unaligned")
    /\ is_full(ctrl[index])
    /\ \E past \in PastTags :
          ApplyErase(index, UnalignedSetCtrl(ctrl, index, EraseTag(index, past)))

\* set_ctrl of the double hashing table writes the one tag
DoubleEraseIndex(index) ==
    /\ CanCall("double")
    /\ is_full(ctrl[index])
    /\ \E past \in PastTags :
          ApplyErase(index, [ctrl EXCEPT ![index] = EraseTag(index, past)])

Next ==
    \/ \E key \in Keys, value \in Vals : AlignedInsert(key, value)
    \/ \E index \in 0 .. bucket_mask : AlignedEraseIndex(index)
    \/ \E key \in Keys, value \in Vals : UnalignedInsert(key, value)
    \/ \E index \in 0 .. bucket_mask : UnalignedEraseIndex(index)
    \/ \E key \in Keys, value \in Vals : DoubleInsert(key, value)
    \/ \E index \in 0 .. bucket_mask : DoubleEraseIndex(index)

Spec == Init /\ [][Next]_vars

\* ------------------------------------------------------------------ insert_and_erase

\* what every insert_and_erase does to the table: r is the result of its
\* insert and c the tag array after its set_ctrl(index, Tag::EMPTY)
ApplyInsertAndErase(key, value, r, c) ==
    /\ ctrl' = IF r.fate = "ok" /\ r.inserted THEN c ELSE r.ctrl
    /\ buckets' = r.buckets
    /\ items' = r.items
    /\ status' = CASE r.fate = "ok" -> "ready"
                    [] r.fate = "panic" -> "panicked"
                    [] r.fate = "hang" -> "hung"
    /\ ret' = [op |-> IF r.fate # "ok" THEN r.fate ELSE "insert_and_erase",
               key |-> key, val |-> value,
               inserted |-> r.inserted, index |-> r.index, moves |-> r.moves]
    /\ std_map' = IF r.fate = "ok" /\ ~r.inserted
                  THEN [std_map EXCEPT ![key] = value]
                  ELSE std_map
    /\ ops' = ops + 1
    /\ UNCHANGED <<pending, destructed,
                   variant, bucket_mask, aligned_bucket_mask, zero_value, hash_of>>

AlignedInsertAndErase(key, value) ==
    /\ CanCall("aligned")
    /\ LET r == AlignedInsertResult(key, value)
       IN  ApplyInsertAndErase(key, value, r, [r.ctrl EXCEPT ![r.index] = EMPTY])

UnalignedInsertAndErase(key, value) ==
    /\ CanCall("unaligned")
    /\ LET r == UnalignedInsertResult(key, value)
       IN  ApplyInsertAndErase(key, value, r, UnalignedSetCtrl(r.ctrl, r.index, EMPTY))

DoubleInsertAndErase(key, value) ==
    /\ CanCall("double")
    /\ \E debug \in BOOLEAN :
          LET r == DoubleInsertResult(key, value, debug)
          IN  ApplyInsertAndErase(key, value, r, [r.ctrl EXCEPT ![r.index] = EMPTY])

\* the benchmark's calls: insert to fill the table, then insert_and_erase
NextInsertAndErase ==
    \/ \E key \in Keys, value \in Vals : AlignedInsert(key, value)
    \/ \E key \in Keys, value \in Vals : UnalignedInsert(key, value)
    \/ \E key \in Keys, value \in Vals : DoubleInsert(key, value)
    \/ \E key \in Keys, value \in Vals : AlignedInsertAndErase(key, value)
    \/ \E key \in Keys, value \in Vals : UnalignedInsertAndErase(key, value)
    \/ \E key \in Keys, value \in Vals : DoubleInsertAndErase(key, value)

SpecInsertAndErase == Init /\ [][NextInsertAndErase]_vars

\* a freshly built table that is only filled
NextFill ==
    \/ \E key \in Keys, value \in Vals : AlignedInsert(key, value)
    \/ \E key \in Keys, value \in Vals : UnalignedInsert(key, value)
    \/ \E key \in Keys, value \in Vals : DoubleInsert(key, value)

SpecFill == Init /\ [][NextFill]_vars

\* ------------------------------------------------------------------ insert, one write at a time

\* insert of the unaligned table up to its first write: the searches only
\* read, and the writes the call is going to make are the ones of its result
UnalignedInsertBegin(key, value) ==
    /\ CanCall("unaligned")
    /\ LET r == UnalignedInsertResult(key, value)
       IN  IF r.fate # "ok"
           THEN ApplyInsert(key, value, r)
           ELSE /\ status' = "writing"
                /\ UNCHANGED destructed
                /\ pending' = [writes |-> r.writes, slots |-> {}]
                /\ ret' = [op |-> "insert_running", key |-> key, val |-> value,
                           inserted |-> r.inserted, index |-> r.index,
                           moves |-> r.moves]
                /\ UNCHANGED <<variant, bucket_mask, aligned_bucket_mask, ctrl,
                               buckets, items, zero_value, hash_of, std_map, ops>>

\* the next write of the running insert: `bucket(index).write(..)`,
\* `(*bucket).1 = value` or `set_ctrl(index, ..)`
UnalignedInsertWrite ==
    /\ status = "writing"
    /\ pending.writes # <<>>
    /\ LET w == Head(pending.writes)
           kv == IF w.from = NoSlot THEN [key |-> ret.key, val |-> ret.val]
                 ELSE buckets[w.from]
           tag == IF w.from = NoSlot THEN TagFull(hash_of[ret.key])
                  ELSE ctrl[w.from]
       IN  /\ buckets' = CASE w.kind = "slot" -> [buckets EXCEPT ![w.index] = kv]
                           [] w.kind = "value" ->
                                  [buckets EXCEPT ![w.index].val = ret.val]
                           [] w.kind = "tag" -> buckets
           /\ ctrl' = IF w.kind = "tag" THEN UnalignedSetCtrl(ctrl, w.index, tag)
                      ELSE ctrl
           /\ pending' = [writes |-> Tail(pending.writes),
                          slots |-> IF w.kind = "slot"
                                    THEN pending.slots \cup {w.index}
                                    ELSE pending.slots]
    /\ UNCHANGED <<variant, bucket_mask, aligned_bucket_mask, items, zero_value,
                   hash_of, std_map, ret, status, ops, destructed>>

\* `self.items += 1` of a new key and the return of the running insert
UnalignedInsertReturn ==
    /\ status = "writing"
    /\ pending.writes = <<>>
    /\ items' = items + (IF ret.inserted THEN 1 ELSE 0)
    /\ status' = "ready"
    /\ ret' = [ret EXCEPT !.op = "insert"]
    /\ std_map' = [std_map EXCEPT ![ret.key] = ret.val]
    /\ ops' = ops + 1
    /\ pending' = NoWrites
    /\ UNCHANGED <<variant, bucket_mask, aligned_bucket_mask, ctrl, buckets,
                   zero_value, hash_of, destructed>>

NextWrites ==
    \/ \E key \in Keys, value \in Vals : UnalignedInsertBegin(key, value)
    \/ UnalignedInsertWrite
    \/ UnalignedInsertReturn
    \/ \E index \in 0 .. bucket_mask : UnalignedEraseIndex(index)

InitWrites ==
    /\ \E n \in TableSizes : InitUnaligned(n)
    /\ InitCommon

SpecWrites == InitWrites /\ [][NextWrites]_vars

\* ------------------------------------------------------------------ the tables that search breadth first

\* the bucket counts with_capacity gives for the capacities of the model
DirectTableSizes == {DirectNumBuckets(c) : c \in 0 .. MaxTableCapacity}

LocalizedTableSizes == {LocalizedNumBuckets(c) : c \in 0 .. MaxTableCapacity}

\* the direct SIMD table has no tags: a key lane of 0 is an empty lane
InitDirect(n) ==
    /\ variant = "direct"
    /\ bucket_mask = n - 1
    /\ aligned_bucket_mask = 0
    /\ ctrl = [i \in {} |-> EMPTY]
    /\ buckets = [i \in 0 .. (n * DIRECT_BUCKET_SIZE - 1) |-> EmptyBucket]
    /\ items = 0

\* a with_capacity that leaves the last tag of a bucket EMPTY like the others
InitLocalizedSentinelEmpty(n) ==
    /\ variant = "localized"
    /\ bucket_mask = (n - 1) * LOCALIZED_BUCKET_BYTES
    /\ aligned_bucket_mask = 0
    /\ ctrl = [i \in 0 .. (n * (LOCALIZED_BUCKET_SIZE + 1) - 1) |-> EMPTY]
    /\ buckets = [i \in 0 .. (n * LOCALIZED_BUCKET_SIZE - 1) |-> EmptyBucket]
    /\ items = 0

\* the last tag of every bucket of the localized table is DELETED
InitLocalized(n) ==
    /\ variant = "localized"
    /\ bucket_mask = (n - 1) * LOCALIZED_BUCKET_BYTES
    /\ aligned_bucket_mask = 0
    /\ ctrl = [i \in 0 .. (n * (LOCALIZED_BUCKET_SIZE + 1) - 1) |->
                  IF i % (LOCALIZED_BUCKET_SIZE + 1) = LOCALIZED_BUCKET_SIZE
                  THEN DELETED ELSE EMPTY]
    /\ buckets = [i \in 0 .. (n * LOCALIZED_BUCKET_SIZE - 1) |-> EmptyBucket]
    /\ items = 0

InitBfs ==
    /\ \/ \E n \in AlignedTableSizes : InitAligned(n)
       \/ \E n \in TableSizes : InitUnaligned(n)
       \/ \E n \in DirectTableSizes : InitDirect(n)
       \/ \E n \in LocalizedTableSizes : InitLocalized(n)
    /\ InitCommon

\* a slip the zero path invites: every insert(0, v) is counted
DirectInsertCountsEveryZero(key, value) ==
    /\ CanCall("direct")
    /\ IF key = 0
       THEN /\ items' = items + 1
            /\ zero_value' = value
            /\ ret' = [op |-> "insert", key |-> key, val |-> value,
                       inserted |-> (zero_value = None),
                       index |-> UsizeMod - 1, moves |-> 0]
            /\ std_map' = [std_map EXCEPT ![key] = value]
            /\ ops' = ops + 1
            /\ UNCHANGED <<pending, destructed,
                           variant, bucket_mask, aligned_bucket_mask, ctrl, buckets,
                           hash_of, status>>
       ELSE ApplyInsert(key, value, DirectInsertResult(key, value))

\* insert of the direct SIMD table: key 0 lives in zero_value
DirectInsert(key, value) ==
    /\ CanCall("direct")
    /\ IF key = 0
       THEN /\ items' = items + (IF zero_value = None THEN 1 ELSE 0)
            /\ zero_value' = value
            /\ ret' = [op |-> "insert", key |-> key, val |-> value,
                       inserted |-> (zero_value = None),
                       index |-> UsizeMod - 1, moves |-> 0]
            /\ std_map' = [std_map EXCEPT ![key] = value]
            /\ ops' = ops + 1
            /\ UNCHANGED <<pending, destructed,
                           variant, bucket_mask, aligned_bucket_mask, ctrl, buckets,
                           hash_of, status>>
       ELSE ApplyInsert(key, value, DirectInsertResult(key, value))

LocalizedInsert(key, value) ==
    /\ CanCall("localized")
    /\ ApplyInsert(key, value, LocalizedInsertResult(key, value))

NextBfs ==
    \/ \E key \in Keys, value \in Vals : AlignedInsert(key, value)
    \/ \E key \in Keys, value \in Vals : UnalignedInsert(key, value)
    \/ \E key \in AllKeys, value \in Vals : DirectInsert(key, value)
    \/ \E key \in Keys, value \in Vals : LocalizedInsert(key, value)

SpecBfs == InitBfs /\ [][NextBfs]_vars

\* ------------------------------------------------------------------ values with a destructor

\* one more run of the destructor of `value`
Destruct(value) == [destructed EXCEPT ![value] = @ + 1]

\* insert of the localized table with a value that owns something.  The
\* update `*..assume_init_mut() = value` destructs the value it replaces; a
\* displacement moves values (assume_init_read, write) and destructs none.
\* The panic unwinds through the argument or aborts, as the build has it.
LocalizedInsertOwned(key) ==
    /\ CanCall("localized")
    /\ LET value == ops + 1
           r == LocalizedInsertResult(key, value)
       IN  /\ InsertEffects(key, value, r)
           /\ destructed' \in
                  CASE r.fate = "panic" -> {destructed, Destruct(value)}
                    [] r.fate = "hang" -> {destructed}
                    [] r.fate = "ok" ->
                           IF r.inserted THEN {destructed}
                           ELSE {Destruct(buckets[r.index].val)}

\* insert_and_erase of the localized table: the lane insert returned is
\* cleared and its value destructed by assume_init_drop
LocalizedInsertAndEraseOwned(key) ==
    /\ CanCall("localized")
    /\ LET value == ops + 1
           r == LocalizedInsertResult(key, value)
           fprint == (r.index \div LOCALIZED_BUCKET_SIZE) * (LOCALIZED_BUCKET_SIZE + 1)
                         + (r.index % LOCALIZED_BUCKET_SIZE)
       IN  IF r.fate = "ok" /\ r.inserted
           THEN /\ ctrl' = [r.ctrl EXCEPT ![fprint] = EMPTY]
                /\ buckets' = [r.buckets EXCEPT ![r.index] = EmptyBucket]
                /\ items' = r.items - 1
                /\ destructed' = Destruct(r.buckets[r.index].val)
                /\ ret' = [op |-> "insert_and_erase", key |-> key, val |-> value,
                           inserted |-> TRUE, index |-> r.index, moves |-> r.moves]
                /\ ops' = ops + 1
                /\ UNCHANGED <<variant, bucket_mask, aligned_bucket_mask,
                               zero_value, hash_of, std_map, status, pending>>
           ELSE /\ InsertEffects(key, value, r)
                /\ destructed' \in
                       CASE r.fate = "panic" -> {destructed, Destruct(value)}
                         [] r.fate = "hang" -> {destructed}
                         [] r.fate = "ok" -> {Destruct(buckets[r.index].val)}

\* the table goes out of scope: HashTable has no Drop impl, and the drop of
\* Box<[Bucket<V>]> frees the buckets without running a destructor, the
\* values being MaybeUninit<V>
LocalizedDrop ==
    /\ status = "ready"
    /\ variant = "localized"
    /\ status' = "dropped"
    /\ ret' = [ret EXCEPT !.op = "drop"]
    /\ UNCHANGED <<variant, bucket_mask, aligned_bucket_mask, ctrl, buckets, items,
                   zero_value, hash_of, std_map, ops, pending, destructed>>

NextOwned ==
    \/ \E key \in Keys : LocalizedInsertOwned(key)
    \/ \E key \in Keys : LocalizedInsertAndEraseOwned(key)
    \/ LocalizedDrop

InitOwned ==
    /\ \E n \in LocalizedTableSizes : InitLocalized(n)
    /\ InitCommon

SpecOwned == InitOwned /\ [][NextOwned]_vars

\* ------------------------------------------------------------------ direct SIMD quadratic probing table

\* a move_next that adds the stride before it has grown
QuadraticMoveNextLate(pos, stride) == BitAnd(pos + stride, bucket_mask)

\* ProbeSeq::move_next: the stride grows by one bucket, then the position
QuadraticMoveNext(pos, stride) == BitAnd(pos + stride + 1, bucket_mask)

\* the loop of insert (key other than 0) from the bucket at pos on; `debug`
\* says whether debug_assert! is compiled in
RECURSIVE QuadraticInsertLoop(_, _, _, _, _, _)
QuadraticInsertLoop(key, value, pos, stride, probe_count, debug) ==
    LET keys == DirectKeys(buckets, pos)
        hit == search_mask(key, keys)
        empty == search_mask(0, keys)
        stays == [ctrl |-> ctrl, buckets |-> buckets, items |-> items,
                  fate |-> "panic", inserted |-> FALSE, index |-> 0, moves |-> 0]
    IN  IF hit # NoSlot
        THEN [ctrl |-> ctrl,
              buckets |-> [buckets EXCEPT ![DirectSlot(pos, hit)].val = value],
              items |-> items, fate |-> "ok",
              inserted |-> FALSE, index |-> DirectSlot(pos, hit), moves |-> 0]
        ELSE IF empty # NoSlot
        THEN [ctrl |-> ctrl,
              buckets |-> [buckets EXCEPT ![DirectSlot(pos, empty)] =
                              [key |-> key, val |-> value]],
              items |-> items + 1, fate |-> "ok",
              inserted |-> TRUE, index |-> DirectSlot(pos, empty), moves |-> 0]
        ELSE IF debug /\ stride > bucket_mask
        THEN stays
        ELSE IF probe_count + 1 > bucket_mask
        THEN stays
        ELSE QuadraticInsertLoop(key, value, QuadraticMoveNext(pos, stride),
                                 stride + 1, probe_count + 1, debug)

QuadraticInsertResult(key, value, debug) ==
    QuadraticInsertLoop(key, value, BitAnd(hash_of[key], bucket_mask), 0, 0, debug)

\* the loop of get from the bucket at pos on.  It has no count of its own:
\* with no empty lane in the table it ends in the debug assertion of
\* move_next or, without assertions, never
RECURSIVE QuadraticGetLoop(_, _, _)
QuadraticGetLoop(key, pos, stride) ==
    LET keys == DirectKeys(buckets, pos)
        hit == search_mask(key, keys)
    IN  IF hit # NoSlot THEN buckets[DirectSlot(pos, hit)].val
        ELSE IF search_mask(0, keys) # NoSlot THEN None
        ELSE IF stride > bucket_mask THEN NoReturn
        ELSE QuadraticGetLoop(key, QuadraticMoveNext(pos, stride), stride + 1)

QuadraticGet(key) ==
    IF key = 0 THEN zero_value
    ELSE QuadraticGetLoop(key, BitAnd(hash_of[key], bucket_mask), 0)

\* ------------------------------------------------------------------ the tables without tags

InitQuadratic(n) ==
    /\ variant = "quadratic"
    /\ bucket_mask = n - 1
    /\ aligned_bucket_mask = 0
    /\ ctrl = [i \in {} |-> EMPTY]
    /\ buckets = [i \in 0 .. (n * DIRECT_BUCKET_SIZE - 1) |-> EmptyBucket]
    /\ items = 0

InitDirectTables ==
    /\ \/ \E n \in DirectTableSizes : InitDirect(n)
       \/ \E n \in DirectTableSizes : InitQuadratic(n)
    /\ InitCommon

\* insert of the quadratic probing table: key 0 lives in zero_value
QuadraticInsert(key, value) ==
    /\ CanCall("quadratic")
    /\ IF key = 0
       THEN /\ items' = items + (IF zero_value = None THEN 1 ELSE 0)
            /\ zero_value' = value
            /\ ret' = [op |-> "insert", key |-> key, val |-> value,
                       inserted |-> (zero_value = None),
                       index |-> UsizeMod - 1, moves |-> 0]
            /\ std_map' = [std_map EXCEPT ![key] = value]
            /\ ops' = ops + 1
            /\ UNCHANGED <<pending, destructed,
                           variant, bucket_mask, aligned_bucket_mask, ctrl, buckets,
                           hash_of, status>>
       ELSE \E debug \in BOOLEAN :
               ApplyInsert(key, value, QuadraticInsertResult(key, value, debug))

\* insert_and_erase(0, value) of the tables without tags; after the erase
\* len is decremented by `dec` (1 in the quadratic table, 0 in the cuckoo)
ZeroInsertAndErase(value, dec) ==
    /\ zero_value' = IF zero_value = None THEN None ELSE value
    /\ items' = IF zero_value = None THEN items + 1 - dec ELSE items
    /\ ret' = [op |-> "insert_and_erase", key |-> 0, val |-> value,
               inserted |-> (zero_value = None),
               index |-> UsizeMod - 1, moves |-> 0]
    /\ std_map' = IF zero_value = None THEN std_map ELSE [std_map EXCEPT ![0] = value]
    /\ ops' = ops + 1
    /\ UNCHANGED <<pending, destructed,
                   variant, bucket_mask, aligned_bucket_mask, ctrl, buckets,
                   hash_of, status>>

\* insert_and_erase(key, value), key other than 0: r is the result of its
\* insert; the key lane of a new entry is set back to 0
SlotInsertAndErase(key, value, r, dec) ==
    /\ ctrl' = r.ctrl
    /\ buckets' = IF r.fate = "ok" /\ r.inserted
                  THEN [r.buckets EXCEPT ![r.index].key = 0]
                  ELSE r.buckets
    /\ items' = IF r.fate = "ok" /\ r.inserted THEN r.items - dec ELSE r.items
    /\ status' = CASE r.fate = "ok" -> "ready"
                    [] r.fate = "panic" -> "panicked"
                    [] r.fate = "hang" -> "hung"
    /\ ret' = [op |-> IF r.fate # "ok" THEN r.fate ELSE "insert_and_erase",
               key |-> key, val |-> value,
               inserted |-> r.inserted, index |-> r.index, moves |-> r.moves]
    /\ std_map' = IF r.fate = "ok" /\ ~r.inserted
                  THEN [std_map EXCEPT ![key] = value]
                  ELSE std_map
    /\ ops' = ops + 1
    /\ UNCHANGED <<pending, destructed,
                   variant, bucket_mask, aligned_bucket_mask, zero_value, hash_of>>

DirectInsertAndErase(key, value) ==
    /\ CanCall("direct")
    /\ IF key = 0 THEN ZeroInsertAndErase(value, 0)
       ELSE SlotInsertAndErase(key, value, DirectInsertResult(key, value), 0)

QuadraticInsertAndErase(key, value) ==
    /\ CanCall("quadratic")
    /\ IF key = 0 THEN ZeroInsertAndErase(value, 1)
       ELSE \E debug \in BOOLEAN :
               SlotInsertAndErase(key, value,
                                  QuadraticInsertResult(key, value, debug), 1)

NextDirectTables ==
    \/ \E key \in AllKeys, value \in Vals : DirectInsert(key, value)
    \/ \E key \in AllKeys, value \in Vals : QuadraticInsert(key, value)
    \/ \E key \in AllKeys, value \in Vals : DirectInsertAndErase(key, value)
    \/ \E key \in AllKeys, value \in Vals : QuadraticInsertAndErase(key, value)

SpecDirectTables == InitDirectTables /\ [][NextDirectTables]_vars

\* ------------------------------------------------------------------ scalar cuckoo table

WINDOW_SIZE == 2

\* the position of probe n of `key`: WINDOW_SIZE slots from hash64, then
\* WINDOW_SIZE slots from hash64.rotate_left(32)
ScalarCuckooPos(key, n) ==
    BitAnd((IF n < WINDOW_SIZE THEN hash_of[key] ELSE RotateLeftHalf(hash_of[key]))
               + (n % WINDOW_SIZE),
           bucket_mask)

\* the `loop` of U64HashSet::insert with (key, value) in hand after
\* `evictions` evictions: every result the random numbers can lead to
RECURSIVE ScalarCuckooWalk(_, _, _, _)
ScalarCuckooWalk(b, key, value, evictions) ==
    LET hits == {n \in 0 .. (2 * WINDOW_SIZE - 1) :
                    b[ScalarCuckooPos(key, n)].key \in {0, key}}
        bucket_pos == ScalarCuckooPos(key, SetMin(hits))
        placed == [key |-> key, val |-> value]
    IN  IF hits # {}
        THEN {[ctrl |-> ctrl, buckets |-> [b EXCEPT ![bucket_pos] = placed],
               items |-> IF b[bucket_pos].key = 0 THEN items + 1 ELSE items,
               fate |-> "ok", inserted |-> (b[bucket_pos].key = 0),
               index |-> bucket_pos, moves |-> evictions]}
        ELSE IF evictions = MaxEvictions
        THEN {[ctrl |-> ctrl, buckets |-> b, items |-> items, fate |-> "hang",
               inserted |-> FALSE, index |-> 0, moves |-> evictions]}
        ELSE UNION {LET evict_pos == ScalarCuckooPos(key, rng_next)
                    IN  ScalarCuckooWalk([b EXCEPT ![evict_pos] = placed],
                                         b[evict_pos].key, b[evict_pos].val,
                                         evictions + 1) :
                    rng_next \in 0 .. (2 * WINDOW_SIZE - 1)}

\* U64HashSet::get: the last matching slot of the first window that has one
ScalarCuckooGet(key) ==
    LET hits0 == {n \in 0 .. (WINDOW_SIZE - 1) :
                     buckets[ScalarCuckooPos(key, n)].key = key}
        hits1 == {n \in WINDOW_SIZE .. (2 * WINDOW_SIZE - 1) :
                     buckets[ScalarCuckooPos(key, n)].key = key}
    IN  IF key = 0 THEN zero_value
        ELSE IF hits0 # {} THEN buckets[ScalarCuckooPos(key, SetMax(hits0))].val
        ELSE IF hits1 # {} THEN buckets[ScalarCuckooPos(key, SetMax(hits1))].val
        ELSE None

InitScalarCuckoo(n) ==
    /\ variant = "scalar_cuckoo"
    /\ bucket_mask = n - 1
    /\ aligned_bucket_mask = 0
    /\ ctrl = [i \in {} |-> EMPTY]
    /\ buckets = [i \in 0 .. (n - 1) |-> EmptyBucket]
    /\ items = 0

ScalarCuckooInsert(key, value) ==
    /\ CanCall("scalar_cuckoo")
    /\ IF key = 0
       THEN /\ items' = items + (IF zero_value = None THEN 1 ELSE 0)
            /\ zero_value' = value
            /\ ret' = [op |-> "insert", key |-> key, val |-> value,
                       inserted |-> (zero_value = None),
                       index |-> UsizeMod - 1, moves |-> 0]
            /\ std_map' = [std_map EXCEPT ![key] = value]
            /\ ops' = ops + 1
            /\ UNCHANGED <<pending, destructed, variant, bucket_mask,
                           aligned_bucket_mask, ctrl, buckets, hash_of, status>>
       ELSE \E r \in ScalarCuckooWalk(buckets, key, value, 0) :
               ApplyInsert(key, value, r)

ScalarCuckooInsertAndErase(key, value) ==
    /\ CanCall("scalar_cuckoo")
    /\ IF key = 0
       THEN ZeroInsertAndErase(value, 0)
       ELSE \E r \in ScalarCuckooWalk(buckets, key, value, 0) :
               SlotInsertAndErase(key, value, r, 0)

NextRandomWalk ==
    \/ \E key \in AllKeys, value \in Vals : ScalarCuckooInsert(key, value)
    \/ \E key \in AllKeys, value \in Vals : ScalarCuckooInsertAndErase(key, value)

InitRandomWalk ==
    /\ \E n \in TableSizes : InitScalarCuckoo(n)
    /\ InitCommon

SpecRandomWalk == InitRandomWalk /\ [][NextRandomWalk]_vars

\* ------------------------------------------------------------------ with_capacity

\* BUCKET_SIZE of the scalar cache line table (8 in the source)
SCALAR_BUCKET_SIZE == 2

\* no table yet: the state with_capacity starts from
InitUnbuilt ==
    /\ variant = "none"
    /\ bucket_mask = 0
    /\ aligned_bucket_mask = 0
    /\ ctrl = [i \in {} |-> EMPTY]
    /\ buckets = [i \in {} |-> EmptyBucket]
    /\ items = 0
    /\ zero_value = None
    /\ hash_of \in HashAssignments
    /\ std_map = [k \in AllKeys |-> None]
    /\ ret = [op |-> "none", key |-> Uninit, val |-> Uninit,
              inserted |-> FALSE, index |-> 0, moves |-> 0, capacity |-> 0]
    /\ status = "unbuilt"
    /\ ops = 0
    /\ pending = NoWrites
    /\ destructed = [value \in OwnedValues |-> 0]

\* what with_capacity(capacity) returns: a table of variant v with the
\* masks, the tags c and the slots b
BuildTable(v, capacity, mask, amask, c, b) ==
    /\ status = "unbuilt"
    /\ variant' = v
    /\ bucket_mask' = mask
    /\ aligned_bucket_mask' = amask
    /\ ctrl' = c
    /\ buckets' = b
    /\ items' = 0
    /\ zero_value' = None
    /\ ret' = [ret EXCEPT !.op = "with_capacity", !.capacity = capacity]
    /\ status' = "ready"
    /\ UNCHANGED <<pending, destructed, hash_of, std_map, ops>>

\* `num_buckets - Group::WIDTH` below zero in a build with overflow checks:
\* "attempt to subtract with overflow", no table is returned
SubtractOverflow(v, capacity) ==
    /\ status = "unbuilt"
    /\ variant' = v
    /\ ret' = [ret EXCEPT !.op = "panic", !.capacity = capacity]
    /\ status' = "panicked"
    /\ UNCHANGED <<pending, destructed,
                   bucket_mask, aligned_bucket_mask, ctrl, buckets, items,
                   zero_value, hash_of, std_map, ops>>

\* with_capacity of the tables that keep aligned_bucket_mask: `checks` says
\* whether the build checks arithmetic overflow (debug) or wraps (release)
TagTableWithCapacity(v, capacity, checks) ==
    LET n == NumBuckets(capacity)
    IN  IF n < W /\ checks
        THEN SubtractOverflow(v, capacity)
        ELSE BuildTable(v, capacity, n - 1, WrappingSub(n, W),
                        [i \in 0 .. (n - 1) |-> EMPTY],
                        [i \in 0 .. (n - 1) |-> EmptyBucket])

AlignedWithCapacity(capacity) ==
    \E checks \in BOOLEAN : TagTableWithCapacity("aligned", capacity, checks)

DoubleWithCapacity(capacity) ==
    \E checks \in BOOLEAN : TagTableWithCapacity("double", capacity, checks)

BalancingWithCapacity(capacity) ==
    \E checks \in BOOLEAN : TagTableWithCapacity("balancing", capacity, checks)

UnalignedWithCapacity(capacity) ==
    LET n == NumBuckets(capacity)
    IN  BuildTable("unaligned", capacity, n - 1, 0,
                   [i \in 0 .. (n + W - 1) |-> EMPTY],
                   [i \in 0 .. (n - 1) |-> EmptyBucket])

\* with_capacity of a table of n slots without tags
SlotTable(v, capacity, mask, n) ==
    BuildTable(v, capacity, mask, 0, [i \in {} |-> EMPTY],
               [i \in 0 .. (n - 1) |-> EmptyBucket])

DirectWithCapacity(capacity) ==
    LET n == DirectNumBuckets(capacity)
    IN  SlotTable("direct", capacity, n - 1, n * DIRECT_BUCKET_SIZE)

QuadraticWithCapacity(capacity) ==
    LET n == DirectNumBuckets(capacity)
    IN  SlotTable("quadratic", capacity, n - 1, n * DIRECT_BUCKET_SIZE)

LocalizedWithCapacity(capacity) ==
    LET n == LocalizedNumBuckets(capacity)
    IN  BuildTable("localized", capacity, (n - 1) * LOCALIZED_BUCKET_BYTES, 0,
                   [i \in 0 .. (n * (LOCALIZED_BUCKET_SIZE + 1) - 1) |->
                       IF i % (LOCALIZED_BUCKET_SIZE + 1) = LOCALIZED_BUCKET_SIZE
                       THEN DELETED ELSE EMPTY],
                   [i \in 0 .. (n * LOCALIZED_BUCKET_SIZE - 1) |-> EmptyBucket])

ScalarCuckooWithCapacity(capacity) ==
    LET n == NumBuckets(capacity)
    IN  SlotTable("scalar_cuckoo", capacity, n - 1, n)

ScalarUnalignedWithCapacity(capacity) ==
    LET n == NumBuckets(capacity) * 2
    IN  SlotTable("scalar_unaligned", capacity, n - 1, n)

ScalarCacheLineWithCapacity(capacity) ==
    LET n == DivCeil(NumBuckets(capacity), SCALAR_BUCKET_SIZE) * 2
    IN  SlotTable("scalar_cache_line", capacity, n - 1, n * SCALAR_BUCKET_SIZE)

NextCap ==
    \/ \E capacity \in 0 .. MaxTableCapacity : AlignedWithCapacity(capacity)
    \/ \E capacity \in 0 .. MaxTableCapacity : UnalignedWithCapacity(capacity)
    \/ \E capacity \in 0 .. MaxTableCapacity : DoubleWithCapacity(capacity)
    \/ \E capacity \in 0 .. MaxTableCapacity : BalancingWithCapacity(capacity)
    \/ \E capacity \in 0 .. MaxTableCapacity : DirectWithCapacity(capacity)
    \/ \E capacity \in 0 .. MaxTableCapacity : QuadraticWithCapacity(capacity)
    \/ \E capacity \in 0 .. MaxTableCapacity : LocalizedWithCapacity(capacity)
    \/ \E capacity \in 0 .. MaxTableCapacity : ScalarCuckooWithCapacity(capacity)
    \/ \E capacity \in 0 .. MaxTableCapacity : ScalarUnalignedWithCapacity(capacity)
    \/ \E capacity \in 0 .. MaxTableCapacity : ScalarCacheLineWithCapacity(capacity)

SpecCap == InitUnbuilt /\ [][NextCap]_vars

\* get and len of the table at hand
Get(key) ==
    CASE variant = "aligned" -> AlignedGet(key)
      [] variant = "unaligned" -> UnalignedGet(key)
      [] variant = "double" -> DoubleGet(key)
      [] variant = "direct" -> DirectGet(key)
      [] variant = "localized" -> LocalizedGet(key)
      [] variant = "quadratic" -> QuadraticGet(key)
      [] variant = "scalar_cuckoo" -> ScalarCuckooGet(key)

StdLen == Cardinality({k \in AllKeys : std_map[k] # None})

FullCount == Cardinality({i \in 0 .. bucket_mask : is_full(ctrl[i])})

TypeOK ==
    /\ \A i \in DOMAIN ctrl : ctrl[i] \in Tags
    /\ \A i \in DOMAIN buckets : buckets[i].key \in Keys \cup {Uninit}
    /\ items \in Nat
    /\ zero_value \in Vals \cup {None}
    /\ status \in {"unbuilt", "ready", "panicked", "hung"}

\* ------------------------------------------------------------------ C1

\* C1: in the aligned cuckoo table, after every insert and erase_index call
\* that returns, len() is the size of the reference map driven by the same
\* calls and get(k) is the reference lookup for every key k.
C1_AlignedRefinesStdMap ==
    (variant = "aligned" /\ status = "ready") =>
        /\ items = StdLen
        /\ \A k \in Keys : AlignedGet(k) = std_map[k]

\* an insert has just displaced a key into its second group, in a table
\* that holds a tombstone of an earlier erase_index
C1_Witness ==
    /\ variant = "aligned" /\ status = "ready"
    /\ ret.op = "insert" /\ ret.moves >= 1
    /\ \E i \in 0 .. bucket_mask : ctrl[i] = DELETED
    /\ \E k \in Keys :
          /\ std_map[k] # None
          /\ AlignedPos1(k) # AlignedPos0(k)
          /\ SlotsOf(k) # {}
          /\ \A i \in SlotsOf(k) : i \in AlignedPos1(k) .. (AlignedPos1(k) + W - 1)

\* ------------------------------------------------------------------ C2

\* C2: in the unaligned cuckoo table, after every insert and erase_index
\* call that returns, every key inserted and not erased since is found:
\* get(k) is its last inserted value, also for keys whose window wraps
\* around the end of the tag array.
C2_UnalignedFindsLiveKeys ==
    (variant = "unaligned" /\ status = "ready") =>
        \A k \in Keys : std_map[k] # None => UnalignedGet(k) = std_map[k]

\* ------------------------------------------------------------------ C3

\* C3: in the double hashing table that still has an EMPTY tag, after every
\* insert and erase_index call get(k) is the last inserted value of every
\* live key k and None for every other key: no erase makes a live key
\* unreachable.
C3_DoubleRefinesStdMap ==
    (/\ variant = "double" /\ status = "ready"
     /\ \E i \in 0 .. bucket_mask : ctrl[i] = EMPTY) =>
        \A k \in Keys : DoubleGet(k) = std_map[k]

\* ------------------------------------------------------------------ C4

\* what insert(key, value) of the aligned or unaligned cuckoo table is to do
\* when it returns: a new key is reported inserted and counted, a key that
\* is there is reported not inserted, not counted, and has the new value
InsertContract(key, value) ==
    status' = "ready" =>
        IF Get(key) = None
        THEN ret'.inserted /\ items' = items + 1
        ELSE ~ret'.inserted /\ items' = items /\ Get(key)' = value

\* C4: in the aligned and unaligned cuckoo tables, insert(k, v) of an absent
\* k returns inserted = true and adds one to len(); insert(k, v2) of a
\* present k returns inserted = false, leaves len() and makes get(k) = v2.
C4_InsertContract ==
    [][\A key \in Keys, value \in Vals :
          (/\ variant \in {"aligned", "unaligned"}
           /\ ops' = ops + 1 /\ ret'.op = "insert"
           /\ ret'.key = key /\ ret'.val = value) => InsertContract(key, value)]_vars

\* an insert has just given a new value to a key that sits outside its
\* first group, in a table where another insert has counted a new key
C4_Witness ==
    /\ variant = "aligned" /\ status = "ready"
    /\ ret.op = "insert" /\ ~ret.inserted
    /\ items >= W + 1
    /\ SlotsOf(ret.key) = {ret.index}
    /\ ret.index \notin AlignedPos0(ret.key) .. (AlignedPos0(ret.key) + W - 1)
    /\ Get(ret.key) = ret.val

\* ------------------------------------------------------------------ C5

\* C5: insert_and_erase(k, v) of a key k that get does not find before the
\* call leaves get(k) = None and len() as it was.
C5_InsertAndEraseLeavesNoTrace ==
    [][\A key \in Keys :
          (/\ ops' = ops + 1 /\ ret'.op = "insert_and_erase"
           /\ ret'.key = key /\ Get(key) = None)
              => (Get(key)' = None /\ items' = items)]_vars

\* ------------------------------------------------------------------ C6

\* C6: in the aligned cuckoo, unaligned cuckoo and double hashing tables,
\* after every insert and erase_index call that returns, items is the number
\* of FULL tags among the tags 0 .. N-1 and the number of live keys.
C6_ItemsCountFullTags ==
    status = "ready" => items = FullCount /\ items = StdLen

\* the tables with tags; the direct SIMD table has none
Tagged == variant \in {"aligned", "unaligned", "double", "localized"}

\* ------------------------------------------------------------------ C7

\* the keys a table of N slots is to take: N * 7 / 8, rounded down
MaxLoad == (num_buckets * 7) \div 8

\* C7: while a freshly built table is filled, every insert of a new key
\* that brings the number of keys to at most MaxLoad returns inserted =
\* true: it neither raises the fatal condition nor fails to return.
C7_FillSucceeds ==
    [][\A key \in Keys :
          (/\ ops' = ops + 1 /\ ret'.key = key
           /\ std_map[key] = None /\ StdLen + 1 <= MaxLoad)
              => (status' = "ready" /\ ret'.inserted)]_vars

\* ------------------------------------------------------------------ C8

\* C8: in the aligned, unaligned, direct SIMD and localized SIMD cuckoo
\* tables, an insert that does not return has raised the fatal "need to
\* rehash" condition (it has not gone round its search for ever), its key
\* was absent, and it leaves every tag, every slot, zero_value and the
\* result of get for every key as they were before the call.
C8_BfsExhaustionIsFatal ==
    [][(ops' = ops + 1 /\ ret'.op # "insert") =>
          /\ status' = "panicked"
          /\ Get(ret'.key) = None
          /\ ctrl' = ctrl /\ buckets' = buckets /\ zero_value' = zero_value
          /\ \A k \in Keys : Get(k)' = Get(k)]_vars

\* an insert of the unaligned table has just raised the fatal condition in
\* a table that has EMPTY slots outside the windows its search can reach,
\* and the keys stored before are all found
C8_Witness ==
    /\ variant = "unaligned" /\ status = "panicked" /\ ret.op = "panic"
    /\ num_buckets >= 2 * W
    /\ \E i \in 0 .. bucket_mask : ctrl[i] = EMPTY
    /\ \A k \in Keys \ {ret.key} : std_map[k] # None /\ Get(k) = std_map[k]

\* ------------------------------------------------------------------ C9

\* the tables whose probes load groups of W tags
GroupTables == {"aligned", "unaligned", "double", "balancing"}

IsPowerOfTwo(n) == n >= 1 /\ NextPowerOfTwo(n) = n

\* the group loaded at pos lies in the tag array
GroupInside(pos) == pos \in DOMAIN ctrl /\ pos + W - 1 \in DOMAIN ctrl

\* the positions get and insert derive from the hash of the key
ProbePositions(key) ==
    CASE variant = "unaligned" -> {UnalignedPos0(key), UnalignedPos1(key)}
      [] variant = "double" -> {ProbeSeqPos(hash_of[key])}
      [] OTHER -> {AlignedPos0(key), AlignedPos1(key)}

\* C9: with_capacity(n) of a table that probes by groups returns a table
\* for every n from 0 on: its number of buckets N is a power of two and at
\* least W, aligned_bucket_mask is N - W where the table has one, and the
\* groups at the positions derived from the hash of any key lie inside the
\* tag array.
C9_WithCapacityBuildsValidTable ==
    (variant \in GroupTables /\ status # "unbuilt") =>
        /\ status = "ready"
        /\ IsPowerOfTwo(num_buckets)
        /\ num_buckets >= W
        /\ variant # "unaligned" => aligned_bucket_mask = num_buckets - W
        /\ \A k \in Keys : \A pos \in ProbePositions(k) : GroupInside(pos)

\* ------------------------------------------------------------------ C10

\* C10: the table with_capacity(n) returns has at least ceil(n * 8 / 7)
\* slots, in every variant (slots: buckets times the lanes of a bucket).
C10_LoadFactorAtMostSevenEighths ==
    (status = "ready" /\ ret.op = "with_capacity") =>
        Cardinality(DOMAIN buckets) >= DivCeil(ret.capacity * 8, 7)

\* ------------------------------------------------------------------ C11

\* C11: in the unaligned cuckoo table of every size with_capacity builds,
\* after every insert and erase_index call that returns, the W replica
\* tags behind the tag array equal the first W tags: tag[N + i] = tag[i].
C11_ReplicaTagsMirror ==
    (variant = "unaligned" /\ status = "ready") =>
        \A i \in 0 .. (W - 1) : ctrl[num_buckets + i] = ctrl[i]

\* ------------------------------------------------------------------ C12

\* the key lanes that are not 0 hold the live keys other than 0, each once
LanesHoldLiveKeys ==
    /\ \A i \in DOMAIN buckets :
          buckets[i].key # 0 => std_map[buckets[i].key] # None
    /\ \A k \in Keys :
          std_map[k] # None => Cardinality({i \in DOMAIN buckets : buckets[i].key = k}) = 1

\* C12: in the direct SIMD cuckoo and quadratic probing tables, after every
\* call that returns, a key lane that is 0 is an empty lane (the lanes that
\* are not 0 hold exactly the live keys) and get(&0) is the value last
\* stored for key 0, None if there is none; insert(0, v) writes v to
\* zero_value, changes no bucket, and adds one to len() only if key 0 was
\* not there.
C12_ZeroKeyLivesInZeroSlot ==
    [][(variant \in {"direct", "quadratic"} /\ status' = "ready") =>
          /\ LanesHoldLiveKeys'
          /\ Get(0)' = std_map'[0]
          /\ (ret'.op = "insert" /\ ret'.key = 0) =>
                /\ buckets' = buckets
                /\ zero_value' = ret'.val
                /\ items' = items + (IF Get(0) = None THEN 1 ELSE 0)]_vars

\* insert(0, v) has just given key 0 a new value in a quadratic probing
\* table that holds another key, and len() counts the two keys
C12_Witness ==
    /\ variant = "quadratic" /\ status = "ready"
    /\ ret.op = "insert" /\ ret.key = 0 /\ ~ret.inserted
    /\ zero_value = ret.val
    /\ \E i \in DOMAIN buckets : buckets[i].key # 0
    /\ items = 2

\* ------------------------------------------------------------------ C13

\* the two groups erase_index(index) loads
ErasedGroupBefore(index, past) ==
    GroupLoadPast(BitAnd(WrappingSub(index, W), bucket_mask), past)

ErasedGroupAfter(index, past) == GroupLoadPast(index, past)

\* the length of the run of tags for which Hit holds at the end of a group
TrailingRun(group, hits) ==
    SetMax({r \in 0 .. W : \A j \in 1 .. r : group[W - j] \in hits})

\* the length of the run of tags for which Hit holds at the start of a group
LeadingRun(group, hits) ==
    SetMax({r \in 0 .. W : \A j \in 0 .. (r - 1) : group[j] \in hits})

\* C13 as stated: erase_index(i) writes EMPTY when the run of EMPTY tags at
\* the end of the group before i and the run of EMPTY tags at the start of
\* the group at i total at least W, DELETED otherwise, and takes one from
\* items.
C13_EraseByEmptyRuns ==
    [][(ops' = ops + 1 /\ ret'.op = "erase_index") =>
          /\ items' = items - 1
          /\ \E past \in PastTags :
                ctrl'[ret'.index] =
                    IF TrailingRun(ErasedGroupBefore(ret'.index, past), {EMPTY})
                       + LeadingRun(ErasedGroupAfter(ret'.index, past), {EMPTY}) >= W
                    THEN EMPTY ELSE DELETED]_vars

\* C13, amended: erase_index(i) writes DELETED when the run of tags other
\* than EMPTY at the end of the group loaded before i and the run of tags
\* other than EMPTY at the start of the group loaded at i total at least W,
\* EMPTY otherwise, and takes one from items.
C13_EraseByFullRuns ==
    [][(ops' = ops + 1 /\ ret'.op = "erase_index") =>
          /\ items' = items - 1
          /\ \E past \in PastTags :
                ctrl'[ret'.index] =
                    IF TrailingRun(ErasedGroupBefore(ret'.index, past), Tags \ {EMPTY})
                       + LeadingRun(ErasedGroupAfter(ret'.index, past), Tags \ {EMPTY}) >= W
                    THEN DELETED ELSE EMPTY]_vars

\* erase_index has just written a tombstone in an unaligned table of at
\* least two groups, next to a slot that is still FULL
C13_Witness ==
    /\ variant = "unaligned" /\ status = "ready" /\ num_buckets >= 2 * W
    /\ ret.op = "erase_index" /\ ctrl[ret.index] = DELETED
    /\ \E j \in {ret.index - 1, ret.index + 1} :
          j \in 0 .. bucket_mask /\ is_full(ctrl[j])

\* ------------------------------------------------------------------ C14

\* C14: in an insert, every write of a tag into a slot's tag byte (the moved
\* tag of a parent -> child move, the tag of the new key) comes after the
\* write of the (key, value) into that slot by the same insert.
C14_SlotWrittenBeforeTag ==
    [][(/\ status = "writing"
        /\ pending.writes # <<>>
        /\ Head(pending.writes).kind = "tag"
        /\ pending'.writes = Tail(pending.writes))
       => Head(pending.writes).index \in pending.slots]_vars

\* ------------------------------------------------------------------ C15

\* C15: localized SIMD table: once the table is dropped, the destructor of
\* every value that was handed to insert or insert_and_erase has run exactly
\* once (on the update that replaced it, on its erasure, or on the drop).
C15_EveryValueDestructedOnce ==
    (variant = "localized" /\ status = "dropped") =>
        \A value \in 1 .. ops : destructed[value] = 1

\* ------------------------------------------------------------------ C16

\* C16: on a table built with a whole group of slots, insert_and_erase(k, v)
\* of a key k that was inserted and never erased overwrites the value of k
\* and nothing else: afterwards get(k) = Some(v), and every tag, the key of
\* every slot, the value of every other slot and len() are what they were.
C16_InsertAndEraseOverwritesPresentKey ==
    [][\A k \in Keys :
          (/\ num_buckets >= W
           /\ ops' = ops + 1 /\ ret'.op = "insert_and_erase" /\ ret'.key = k
           /\ std_map[k] # None)
          => /\ Get(k)' = ret'.val
             /\ ctrl' = ctrl
             /\ items' = items
             /\ \A i \in DOMAIN buckets :
                   buckets'[i] = IF i = ret'.index
                                 THEN [buckets[i] EXCEPT !.val = ret'.val]
                                 ELSE buckets[i]]_vars

\* ------------------------------------------------------------------ C17

\* C17: in the direct and the localized SIMD cuckoo table, after every
\* sequence of inserts that did not hit the fatal rehash condition, get(k) is
\* the last value inserted for k, also when k was moved by a displacement,
\* and None for a key that was never inserted.
C17_BatchedGetReturnsLastInsert ==
    (variant \in {"direct", "localized"} /\ status = "ready") =>
        \A k \in (IF variant = "direct" THEN AllKeys ELSE Keys) :
            Get(k) = std_map[k]

\* an insert into the localized table has just displaced a live key, which
\* get still finds, and another key was never inserted
C17_Witness ==
    /\ variant = "localized" /\ status = "ready"
    /\ ret.op = "insert" /\ ret.moves >= 1
    /\ \E k \in Keys \ {ret.key} : std_map[k] # None /\ Get(k) = std_map[k]
    /\ \E k \in Keys : std_map[k] = None /\ Get(k) = None

\* ------------------------------------------------------------------ C18

\* C18: unaligned table built with a whole group of slots, erase_index never
\* called: insert_and_erase(k, v) of an absent key k leaves get(k2) what it
\* was for every other key k2, also when the insert displaced entries.
C18_InsertAndEraseKeepsOtherKeys ==
    [][(/\ variant = "unaligned" /\ num_buckets >= W
        /\ ops' = ops + 1 /\ ret'.op = "insert_and_erase" /\ ret'.inserted)
       => \A k \in Keys \ {ret'.key} : Get(k)' = Get(k)]_vars

\* ------------------------------------------------------------------ C19

\* C19: scalar cuckoo table: when insert(k, v) returns (true, locator), the
\* slot at locator holds k; and an insert_and_erase(k, v) whose insert
\* returned true leaves get(k2) what it was for every other key k2.
C19_LocatorHoldsInsertedKey ==
    [][(/\ variant = "scalar_cuckoo" /\ status' = "ready"
        /\ ops' = ops + 1 /\ ret'.inserted /\ ret'.key # 0)
       => /\ ret'.op = "insert" => buckets'[ret'.index].key = ret'.key
          /\ ret'.op = "insert_and_erase" =>
                 \A k \in AllKeys \ {ret'.key} : Get(k)' = Get(k)]_vars

\* ------------------------------------------------------------------ C20

\* C20: aligned cuckoo table, after any sequence of insert and erase_index
\* calls: every slot i with a FULL tag holds a key k with tag[i] the
\* fingerprint of hash(k), and i lies in the group at pos0(k) or in the group
\* at pos1(k); this includes the entries a BFS displacement has moved.
C20_FullSlotsInOwnGroups ==
    variant = "aligned" =>
        \A i \in 0 .. bucket_mask :
            is_full(ctrl[i]) =>
                /\ buckets[i].key \in Keys
                /\ ctrl[i] = TagFull(hash_of[buckets[i].key])
                /\ \/ i \in AlignedPos0(buckets[i].key) ..
                             (AlignedPos0(buckets[i].key) + W - 1)
                   \/ i \in AlignedPos1(buckets[i].key) ..
                             (AlignedPos1(buckets[i].key) + W - 1)

\* an insert has just displaced an entry out of the first group of its key
\* into the second one, which is another group
C20_Witness ==
    /\ variant = "aligned" /\ status = "ready"
    /\ ret.op = "insert" /\ ret.moves >= 1
    /\ \E i \in 0 .. bucket_mask :
          /\ is_full(ctrl[i])
          /\ buckets[i].key # ret.key
          /\ i \notin AlignedPos0(buckets[i].key) ..
                       (AlignedPos0(buckets[i].key) + W - 1)

\* ------------------------------------------------------------------ C21

\* C21: unaligned cuckoo table, after any sequence of insert and erase_index
\* calls: when a live key is stored in a slot outside its first window (the W
\* tags from hash & bucket_mask on), that first window holds no EMPTY tag.
C21_FirstWindowOfSpilledKeyHasNoEmpty ==
    (variant = "unaligned" /\ status = "ready") =>
        \A i \in 0 .. bucket_mask :
            (/\ is_full(ctrl[i])
             /\ BitAnd(WrappingSub(i, UnalignedPos0(buckets[i].key)), bucket_mask) >= W)
            => match_empty(GroupLoad(UnalignedPos0(buckets[i].key))) = {}

\* erase_index has just freed a slot in the first window of a key that lives
\* outside that window, and has left a tombstone there
C21_Witness ==
    /\ variant = "unaligned" /\ status = "ready"
    /\ ret.op = "erase_index" /\ ctrl[ret.index] = DELETED
    /\ \E i \in 0 .. bucket_mask :
          /\ is_full(ctrl[i])
          /\ BitAnd(WrappingSub(i, UnalignedPos0(buckets[i].key)), bucket_mask) >= W
          /\ BitAnd(WrappingSub(ret.index, UnalignedPos0(buckets[i].key)),
                    bucket_mask) < W

\* ------------------------------------------------------------------ C22

\* C22: double hashing table and direct SIMD quadratic probing table: in
\* every reachable state every insert returns without running past the end
\* of its probe sequence, and get(k) returns for every key k.
C22_ProbesTerminate ==
    variant \in {"double", "quadratic"} =>
        /\ status \notin {"hung", "panicked"}
        /\ status = "ready" => \A k \in Keys : Get(k) # NoReturn

\* ------------------------------------------------------------------ C23

\* C23: scalar cuckoo table: every insert returns or raises a fatal condition,
\* whatever the random eviction choices, also on a table that has no empty
\* slot; a call that only goes on evicting is the case the claim excludes.
C23_RandomWalkInsertReturns ==
    variant = "scalar_cuckoo" =>
        ~(status = "hung" /\ \A i \in DOMAIN buckets : buckets[i].key # 0)


\* C24: every group load of erase_index reads only tags inside the tag array
\* (0 .. N - 1 in the aligned and double hashing tables, 0 .. N + W - 1 in the
\* unaligned table), for every slot index passed, on tables of at least W slots
C24_GroupLoadsInsideTagArray ==
    (ret.op = "erase_index" /\ num_buckets >= W)
        => \A pos \in {ret.index, BitAnd(WrappingSub(ret.index, W), bucket_mask)} :
              \A lane \in 0 .. (W - 1) : pos + lane \in DOMAIN ctrl


\* C25: aligned and unaligned cuckoo tables: an insert of an absent key one of
\* whose two candidate groups holds a tag that is not FULL (EMPTY or DELETED)
\* installs the key and does not raise the fatal rehash condition
C25_FreedSlotsStayUsable ==
    [][\A k \in Keys :
          (/\ variant \in {"aligned", "unaligned"}
           /\ num_buckets >= W
           /\ status = "ready"
           /\ std_map[k] = None
           /\ ops' = ops + 1
           /\ ret'.op \in {"insert", "panic", "hang"}
           /\ ret'.key = k
           /\ \E pos \in (IF variant = "aligned"
                             THEN {AlignedPos0(k), AlignedPos1(k)}
                             ELSE {UnalignedPos0(k), UnalignedPos1(k)}) :
                 \E lane \in 0 .. (W - 1) : ~is_full(GroupLoad(pos)[lane]))
              => /\ status' = "ready"
                 /\ ret'.inserted
                 /\ is_full(ctrl'[ret'.index])
                 /\ buckets'[ret'.index].key = k]_vars


\* C26: double hashing table: an insert that adds its key writes it into the
\* first slot along the probe sequence whose tag is EMPTY or DELETED, the
\* sequence running up to the first group that holds an EMPTY tag; get walks on
\* past groups that hold DELETED tags but no EMPTY tag and finds a key behind them
C26_TombstoneReusedNeverEndsProbe ==
    [][\A k \in Keys :
          LET ProbeAt(j) == BitAnd(ProbeSeqPos(hash_of[k]) + j * ProbeSeqStride(hash_of[k]),
                                   bucket_mask)
              Free(j) == {lane \in 0 .. (W - 1) : ~is_full(GroupLoad(ProbeAt(j))[lane])}
              Stops == {j \in 0 .. (ProbeCycle - 1) : match_empty(GroupLoad(ProbeAt(j))) # {}}
              first == SetMin({j \in 0 .. SetMin(Stops) : Free(j) # {}})
          IN  (variant = "double" /\ num_buckets >= W /\ status = "ready")
                 => /\ (ops' = ops + 1 /\ ret'.op = "insert" /\ ret'.key = k /\ ret'.inserted)
                          => /\ Stops # {}
                             /\ ret'.index = BitAnd(ProbeAt(first) + SetMin(Free(first)),
                                                    bucket_mask)
                             /\ ctrl' = [ctrl EXCEPT ![ret'.index] = TagFull(hash_of[k])]
                             /\ buckets'[ret'.index] = [key |-> k, val |-> ret'.val]
                    /\ \A j \in 0 .. (ProbeCycle - 1) :
                          (/\ \A before \in 0 .. (j - 1) :
                                 /\ match_empty(GroupLoad(ProbeAt(before))) = {}
                                 /\ SlotsOf(k) \cap (ProbeAt(before) .. (ProbeAt(before) + W - 1)) = {}
                           /\ SlotsOf(k) \cap (ProbeAt(j) .. (ProbeAt(j) + W - 1)) # {})
                              => \E i \in SlotsOf(k) : Get(k) = buckets[i].val]_vars

\* an insert has just taken lane 0 of a group whose lane 1 was filled earlier:
\* the slot was a tombstone, and the EMPTY tag that ended the probe was in a later group
C26_Witness ==
    /\ variant = "double"
    /\ status = "ready"
    /\ ret.op = "insert"
    /\ ret.inserted
    /\ ret.index % W = 0
    /\ ret.index = ProbeSeqPos(hash_of[ret.key])
    /\ is_full(ctrl[ret.index + 1])
    /\ buckets[ret.index + 1].key # ret.key


\* C27: the alternative-position function of the displacement exchanges the
\* two candidate positions of a key, for every hash and every mask of a table:
\* other(pos0) = pos1 and other(pos1) = pos0, with other(p) = p XOR (scramble(tag) & mask)
\* in the aligned and localized tables and p XOR (rotate_left(h) & mask) in the
\* direct table; so the position the BFS computes for the occupant of a slot
\* is one of the two positions get probes for that occupant
C27_OtherPosExchangesCandidates ==
    /\ variant \in {"aligned", "direct", "localized"}
          => \A h \in 0 .. (2 ^ HashBits - 1) :
                LET mask == IF variant = "aligned" THEN aligned_bucket_mask ELSE bucket_mask
                    step == IF variant = "direct" THEN RotateLeftHalf(h)
                            ELSE ScrambleTag(TagFull(h))
                    pos0 == BitAnd(h, mask)
                    pos1 == BitAnd(BitXor(h, step), mask)
                IN  /\ BitXor(pos0, BitAnd(step, mask)) = pos1
                    /\ BitXor(pos1, BitAnd(step, mask)) = pos0
    /\ (variant = "aligned" /\ num_buckets >= W)
          => \A i \in 0 .. bucket_mask :
                is_full(ctrl[i])
                   => LET pos == i - (i % W)
                          other == BitXor(pos, BitAnd(ScrambleTag(ctrl[i]), aligned_bucket_mask))
                      IN  {pos, other} = {AlignedPos0(buckets[i].key), AlignedPos1(buckets[i].key)}
    /\ variant = "direct"
          => \A pos \in 0 .. bucket_mask, i \in 0 .. (DIRECT_BUCKET_SIZE - 1) :
                LET key == buckets[DirectSlot(pos, i)].key
                IN  key # 0 => {pos, DirectOtherPos(pos, key)} = {DirectPos0(key), DirectPos1(key)}
    /\ variant = "localized"
          => \A pos \in {p \in 0 .. bucket_mask : p % LOCALIZED_BUCKET_BYTES = 0} :
                \A i \in 0 .. (LOCALIZED_BUCKET_SIZE - 1) :
                   LET key == buckets[LocalizedSlot(pos, i)].key
                   IN  is_full(ctrl[LocalizedTag(pos, i)])
                          => {pos, LocalizedOtherPos(pos, i)}
                                = {LocalizedPos0(key), LocalizedPos1(key)}

\* a displacement of the direct table has moved a key into its second bucket
C27_Witness ==
    /\ variant = "direct"
    /\ status = "ready"
    /\ ret.op = "insert"
    /\ ret.moves >= 1
    /\ \E pos \in 0 .. bucket_mask, i \in 0 .. (DIRECT_BUCKET_SIZE - 1) :
          LET key == buckets[DirectSlot(pos, i)].key
          IN  /\ key \notin {0, ret.key}
              /\ pos = DirectPos1(key)
              /\ pos # DirectPos0(key)
              /\ DirectOtherPos(pos, key) = DirectPos0(key)


\* C28: unaligned cuckoo table: an insert of an absent key that succeeds by
\* BFS displacement rewrites only the slots of the eviction path (one per move
\* and the root slot); every entry present before is present once afterwards,
\* with its value and tag, in a slot of one of its key's two windows; the new
\* entry is in a window of its key; no other entry appears
C28_DisplacementFrame ==
    [][\A k \in Keys :
          LET Windows(key) ==
                  {BitAnd(pos + lane, bucket_mask) :
                      pos \in {UnalignedPos0(key), UnalignedPos1(key)}, lane \in 0 .. (W - 1)}
              Changed == {i \in 0 .. bucket_mask :
                             buckets'[i] # buckets[i] \/ ctrl'[i] # ctrl[i]}
          IN  (/\ variant = "unaligned"
               /\ num_buckets >= W
               /\ status = "ready"
               /\ status' = "ready"
               /\ ops' = ops + 1
               /\ ret'.op = "insert"
               /\ ret'.key = k
               /\ ret'.inserted
               /\ ret'.moves >= 1)
                  => /\ Cardinality(Changed) <= ret'.moves + 1
                     /\ ret'.index \in Windows(k) \cap Changed
                     /\ buckets'[ret'.index] = [key |-> k, val |-> ret'.val]
                     /\ ctrl'[ret'.index] = TagFull(hash_of[k])
                     /\ SlotsOf(k)' = {ret'.index}
                     /\ \A other \in Keys \ {k} :
                           /\ SlotsOf(other) = {} => SlotsOf(other)' = {}
                           /\ \A from \in SlotsOf(other) :
                                 \E to \in Windows(other) :
                                    /\ SlotsOf(other)' = {to}
                                    /\ buckets'[to] = buckets[from]
                                    /\ ctrl'[to] = ctrl[from]
                     /\ \A i \in 0 .. (W - 1) : ctrl'[num_buckets + i] = ctrl'[i]]_vars

\* a displacement has just moved a live key out of its first window
C28_Witness ==
    /\ variant = "unaligned"
    /\ status = "ready"
    /\ ret.op = "insert"
    /\ ret.inserted
    /\ ret.moves >= 1
    /\ is_full(ctrl[ret.index])
    /\ \E i \in 0 .. bucket_mask :
          /\ is_full(ctrl[i])
          /\ buckets[i].key # ret.key
          /\ BitAnd(WrappingSub(i, UnalignedPos0(buckets[i].key)), bucket_mask) >= W
          /\ BitAnd(WrappingSub(i, UnalignedPos1(buckets[i].key)), bucket_mask) < W
          /\ BitAnd(WrappingSub(ret.index, UnalignedPos0(buckets[i].key)), bucket_mask) < W


\* ------------------------------------------------------------------ long eviction chains

\* the aligned table of the largest capacity, more keys than the other runs
\* have, hashes that spread them over its groups, and longer runs of calls:
\* eviction chains of more than one move need tombstones or a third group
NumDeepKeys == 4

MaxDeepOps == 7

DeepHashes == {0, 4, 2 ^ (HashBits - 1) + 4}

InitDeepBfs ==
    /\ InitAligned(NumBuckets(MaxTableCapacity))
    /\ hash_of \in [1 .. NumDeepKeys -> DeepHashes]
    /\ zero_value = None
    /\ std_map = [k \in 0 .. NumDeepKeys |-> None]
    /\ ret = [op |-> "with_capacity", key |-> Uninit, val |-> Uninit,
              inserted |-> FALSE, index |-> 0, moves |-> 0]
    /\ status = "ready"
    /\ ops = 0
    /\ pending = NoWrites
    /\ destructed = [value \in OwnedValues |-> 0]

AlignedInsertDeep(key) ==
    /\ status = "ready"
    /\ ops < MaxDeepOps
    /\ ApplyInsert(key, 1, AlignedInsertResult(key, 1))

AlignedEraseIndexDeep(index) ==
    /\ status = "ready"
    /\ ops < MaxDeepOps
    /\ is_full(ctrl[index])
    /\ \E past \in PastTags :
          ApplyErase(index, [ctrl EXCEPT ![index] = EraseTag(index, past)])

NextDeepBfs ==
    \/ \E key \in 1 .. NumDeepKeys : AlignedInsertDeep(key)
    \/ \E index \in 0 .. bucket_mask : AlignedEraseIndexDeep(index)

SpecDeepBfs == InitDeepBfs /\ [][NextDeepBfs]_vars

C30_BfsQueueReadsWritten ==
    (/\ status \in {"ready", "panicked"}
     /\ variant \in {"aligned", "unaligned", "direct", "localized"}
     /\ variant \in {"aligned", "unaligned"} => num_buckets >= W)
        => \A k \in Keys :
              LET bfs == CASE variant = "aligned" ->
                                 AlignedBfs((0 :> AlignedPos0(k)) @@ (1 :> AlignedPos1(k)), 0)
                           [] variant = "unaligned" ->
                                 UnalignedBfs((0 :> UnalignedPos0(k)) @@ (1 :> UnalignedPos1(k)), 0)
                           [] variant = "direct" ->
                                 DirectBfs((0 :> DirectPos0(k)) @@ (1 :> DirectPos1(k)), 0,
                                           DIRECT_BFS_MAX_LEN)
                           [] variant = "localized" ->
                                 LocalizedBfs((0 :> LocalizedPos0(k)) @@ (1 :> LocalizedPos1(k)),
                                              0, LOCALIZED_BFS_MAX_LEN)
                  max_len == CASE variant = "aligned" -> ALIGNED_BFS_MAX_LEN
                               [] variant = "unaligned" -> UNALIGNED_BFS_MAX_LEN
                               [] variant = "direct" -> DIRECT_BFS_MAX_LEN
                               [] variant = "localized" -> LOCALIZED_BFS_MAX_LEN
                  fanout == CASE variant = "aligned" -> W
                              [] variant = "unaligned" -> 2 * W
                              [] variant = "direct" -> DIRECT_BUCKET_SIZE
                              [] variant = "localized" -> LOCALIZED_BUCKET_SIZE
                  Parent(i) == IF i < 2 THEN i ELSE (i - 2) \div fanout
                  last_read ==
                      IF variant = "aligned"
                      THEN ((IF bfs.fate = "panic" THEN max_len ELSE bfs.path_index) - 2) \div W
                      ELSE IF bfs.fate = "panic" THEN max_len - 1
                      ELSE 2 * (bfs.path_index \div 2) + 1
                  path == IF bfs.fate = "panic" THEN {}
                          ELSE {Parent(bfs.path_index), Parent(Parent(bfs.path_index)),
                                Parent(Parent(Parent(bfs.path_index)))}
              IN  bfs.fate \in {"ok", "panic"}
                     => /\ DOMAIN bfs.bfs_queue \subseteq 0 .. (max_len - 1)
                        /\ (0 .. last_read) \cup path \subseteq DOMAIN bfs.bfs_queue

\* an insert of the unaligned table has just searched its whole queue and
\* raised the fatal condition: the last entry of the queue was written and read
C30_Witness ==
    /\ variant = "unaligned"
    /\ status = "panicked"
    /\ ret.op = "panic"
    /\ LET bfs == UnalignedBfs((0 :> UnalignedPos0(ret.key)) @@ (1 :> UnalignedPos1(ret.key)), 0)
       IN  /\ bfs.fate = "panic"
           /\ DOMAIN bfs.bfs_queue = 0 .. (UNALIGNED_BFS_MAX_LEN - 1)


\* C31: double hashing table of N >= W slots: for every hash, every position
\* probe_seq and move_next produce is a multiple of W, and the first N / W
\* positions are pairwise distinct: the probe visits every group exactly once
C31_ProbeVisitsEveryGroupOnce ==
    (variant = "double" /\ num_buckets >= W)
        => \A h \in 0 .. (2 ^ HashBits - 1) :
              LET stride == ProbeSeqStride(h)
                  pos[steps \in 0 .. ProbeCycle] ==
                      IF steps = 0 THEN ProbeSeqPos(h)
                      ELSE MoveNext(pos[steps - 1], stride)
              IN  /\ \A j \in 0 .. ProbeCycle : pos[j] % W = 0
                  /\ \A i, j \in 0 .. (ProbeCycle - 1) : pos[i] = pos[j] => i = j
                  /\ {pos[j] : j \in 0 .. (ProbeCycle - 1)}
                        = {g \in 0 .. bucket_mask : g % W = 0}

\* an insert has just placed its key in a group the probe reached by move_next
C31_Witness ==
    /\ variant = "double"
    /\ status = "ready"
    /\ ProbeCycle >= 2
    /\ ret.op = "insert"
    /\ ret.inserted
    /\ buckets[ret.index].key = ret.key
    /\ ret.index - (ret.index % W) # ProbeSeqPos(hash_of[ret.key])
    /\ ret.index - (ret.index % W)
          = MoveNext(ProbeSeqPos(hash_of[ret.key]), ProbeSeqStride(hash_of[ret.key]))


\* ------------------------------------------------------------------ filling the quadratic probing table

\* enough keys and calls to fill the table of two buckets and to insert one key
\* more, and to reach the third bucket of the sequence in the table of four;
\* the hashes differ in the bits that choose the first bucket
NumFillKeys == 5

MaxFillOps == 5

InitQuadraticFill ==
    /\ \E n \in DirectTableSizes : InitQuadratic(n)
    /\ hash_of \in [1 .. NumFillKeys -> {h \in Hashes : h < 2 ^ HalfBits}]
    /\ zero_value = None
    /\ std_map = [k \in 0 .. NumFillKeys |-> None]
    /\ ret = [op |-> "with_capacity", key |-> Uninit, val |-> Uninit,
              inserted |-> FALSE, index |-> 0, moves |-> 0]
    /\ status = "ready"
    /\ ops = 0
    /\ pending = NoWrites
    /\ destructed = [value \in OwnedValues |-> 0]

QuadraticInsertFill(key) ==
    /\ status = "ready"
    /\ ops < MaxFillOps
    /\ \E debug \in BOOLEAN :
          ApplyInsert(key, 1, QuadraticInsertResult(key, 1, debug))

NextQuadraticFill == \E key \in 1 .. NumFillKeys : QuadraticInsertFill(key)

SpecQuadraticFill == InitQuadraticFill /\ [][NextQuadraticFill]_vars

\* C32: quadratic probing table of M buckets: from every first bucket the
\* probe sequence, whose stride grows by 1 before each step, has the M buckets
\* as its first M positions, each once; an insert that adds its key puts it in
\* the first bucket of the sequence with an empty lane; insert raises the
\* 'table is full' panic only when no bucket holds the key or an empty lane
C32_QuadraticProbeVisitsEveryBucket ==
    variant = "quadratic"
        => /\ \A first \in {BitAnd(h, bucket_mask) : h \in 0 .. (2 ^ HashBits - 1)} :
                 LET pos[steps \in 0 .. bucket_mask] ==
                         IF steps = 0 THEN first
                         ELSE QuadraticMoveNext(pos[steps - 1], steps - 1)
                 IN  /\ {pos[j] : j \in 0 .. bucket_mask} = 0 .. bucket_mask
                     /\ \A i, j \in 0 .. bucket_mask : pos[i] = pos[j] => i = j
           /\ ret.op = "panic"
                 => \A i \in DOMAIN buckets : buckets[i].key \notin {0, ret.key}
           /\ (ret.op = "insert" /\ ret.inserted /\ ret.key # 0)
                 => LET pos[steps \in 0 .. bucket_mask] ==
                            IF steps = 0 THEN BitAnd(hash_of[ret.key], bucket_mask)
                            ELSE QuadraticMoveNext(pos[steps - 1], steps - 1)
                        Before(j) == {DirectSlot(pos[i], lane) :
                                         i \in 0 .. (j - 1),
                                         lane \in 0 .. (DIRECT_BUCKET_SIZE - 1)}
                    IN  \E j \in 0 .. bucket_mask :
                           /\ pos[j] = ret.index \div DIRECT_BUCKET_SIZE
                           /\ \A i \in Before(j) : buckets[i].key \notin {0, ret.key}

\* the table of two buckets is full and the insert of one more key has examined
\* both buckets and raised the panic
C32_Witness ==
    /\ variant = "quadratic"
    /\ bucket_mask = 1
    /\ status = "panicked"
    /\ ret.op = "panic"
    /\ \A i \in DOMAIN buckets : buckets[i].key \notin {0, ret.key}


\* C33: localized SIMD table: the last tag of every bucket is DELETED in
\* every state; match_tag of a FULL tag and match_empty never report the last
\* lane, so the lanes at which insert, get and insert_and_erase read or write
\* a key, a value or a tag are lanes 0 .. BUCKET_SIZE - 1 only
C33_SentinelTagStaysDeleted ==
    variant = "localized"
        => LET positions == {b * LOCALIZED_BUCKET_BYTES :
                                b \in 0 .. (bucket_mask \div LOCALIZED_BUCKET_BYTES)}
           IN  /\ \A pos \in positions :
                     /\ ctrl[LocalizedTag(pos, LOCALIZED_BUCKET_SIZE)] = DELETED
                     /\ \A tag \in FullTags :
                           match_tag(LocalizedGroup(pos), tag)
                               \subseteq 0 .. (LOCALIZED_BUCKET_SIZE - 1)
                     /\ match_empty(LocalizedGroup(pos))
                            \subseteq 0 .. (LOCALIZED_BUCKET_SIZE - 1)
               /\ \A key \in Keys :
                     LET tag_hash == TagFull(hash_of[key])
                         bfs == LocalizedBfs((0 :> LocalizedPos0(key)) @@ (1 :> LocalizedPos1(key)),
                                             0, LOCALIZED_BFS_MAX_LEN)
                     IN  /\ LocalizedKeyLanes(LocalizedPos0(key), tag_hash, key)
                                \subseteq 0 .. (LOCALIZED_BUCKET_SIZE - 1)
                         /\ LocalizedKeyLanes(LocalizedPos1(key), tag_hash, key)
                                \subseteq 0 .. (LOCALIZED_BUCKET_SIZE - 1)
                         /\ bfs.fate = "ok" => bfs.bucket_offset < LOCALIZED_BUCKET_SIZE

\* an insert that displaced a key into its other bucket, in a table whose
\* fingerprint lanes are all taken: only the last tags are not FULL
C33_Witness ==
    /\ variant = "localized"
    /\ status = "ready"
    /\ ret.op = "insert"
    /\ ret.inserted
    /\ ret.moves >= 1
    /\ \A i \in DOMAIN ctrl :
          IF i % (LOCALIZED_BUCKET_SIZE + 1) = LOCALIZED_BUCKET_SIZE
          THEN ctrl[i] = DELETED ELSE is_full(ctrl[i])
    /\ Cardinality(DOMAIN ctrl) > LOCALIZED_BUCKET_SIZE + 1


\* ------------------------------------------------------------------ control64::search

\* the builds of the cfg_if! in search
TargetArchs == {"aarch64", "x86_64", "other"}

\* the lanes of the bucket [u64; 4] search is given
SearchLanes == 0 .. 3

\* a search that takes the highest set bit of the mask
SearchLeadingLane(target_arch, key, bucket) ==
    LET lanes == {i \in SearchLanes : bucket[i] = key}
    IN  IF lanes = {} THEN NoSlot ELSE SetMax(lanes)

\* control64::search(key, bucket), None being NoSlot.
\* aarch64: eq0, eq1 are the bytes of the two vceqq_u64 (all ones in a lane
\* that equals the key), vqtbl2q_u8 picks the bytes 0, 8, 16, 24 of the pair
\* (an index past the table gives 0), eq_by_byte is the low u64 of the result.
\* x86_64: movemask has bit i set when lane i equals the key.
search(target_arch, key, bucket) ==
    LET eq == [t \in 0 .. 31 |-> IF bucket[t \div 8] = key THEN 255 ELSE 0]
        mask == [j \in 0 .. 15 |-> IF j < 4 THEN 8 * j ELSE 255]
        eq_by_byte == [j \in 0 .. 7 |-> IF mask[j] < 32 THEN eq[mask[j]] ELSE 0]
        eq_bits == {b \in 0 .. 63 : (eq_by_byte[b \div 8] \div (2 ^ (b % 8))) % 2 = 1}
        movemask == {i \in SearchLanes : bucket[i] = key}
    IN  IF target_arch = "aarch64"
        THEN IF eq_bits = {} THEN NoSlot ELSE SetMin(eq_bits) \div 8
        ELSE IF movemask = {} THEN NoSlot ELSE SetMin(movemask)

\* one bucket of four keys, any of the keys of the model in each lane
InitSearch ==
    /\ variant = "control64"
    /\ bucket_mask = 0
    /\ aligned_bucket_mask = 0
    /\ ctrl = [i \in {} |-> EMPTY]
    /\ buckets \in [SearchLanes -> [key : AllKeys, val : {Uninit}]]
    /\ items = 0
    /\ hash_of = [k \in Keys |-> 0]
    /\ zero_value = None
    /\ std_map = [k \in AllKeys |-> None]
    /\ ret = [op |-> "with_capacity", key |-> Uninit, val |-> Uninit,
              inserted |-> FALSE, index |-> NoSlot, moves |-> 0]
    /\ status = "ready"
    /\ ops = 0
    /\ pending = NoWrites
    /\ destructed = [value \in OwnedValues |-> 0]

\* a call of search in one of the builds; a target without NEON and without
\* AVX2 reaches unimplemented!()
Search(key) ==
    /\ status = "ready"
    /\ variant = "control64"
    /\ \E target_arch \in TargetArchs :
          IF target_arch = "other"
          THEN /\ status' = "panicked"
               /\ ret' = [op |-> "panic", key |-> key, val |-> Uninit,
                          inserted |-> FALSE, index |-> NoSlot, moves |-> 0]
          ELSE /\ status' = status
               /\ ret' = [op |-> "search", key |-> key, val |-> Uninit,
                          inserted |-> FALSE,
                          index |-> search(target_arch, key,
                                           [i \in SearchLanes |-> buckets[i].key]),
                          moves |-> 0]
    /\ UNCHANGED <<variant, bucket_mask, aligned_bucket_mask, ctrl, buckets, items,
                   zero_value, hash_of, std_map, ops, pending, destructed>>

NextSearch == \E key \in AllKeys : Search(key)

SpecSearch == InitSearch /\ [][NextSearch]_vars

\* C34: control64::search(key, bucket) returns the lowest lane whose key
\* equals `key`, and None exactly when no lane does; search(0, bucket) is
\* therefore the first empty lane of the bucket
C34_SearchReturnsLowestLane ==
    variant = "control64"
        => LET bucket == [i \in SearchLanes |-> buckets[i].key]
           IN  /\ \A key \in AllKeys, target_arch \in {"aarch64", "x86_64"} :
                     LET found == search(target_arch, key, bucket)
                     IN  /\ found = NoSlot <=> \A i \in SearchLanes : bucket[i] # key
                         /\ found # NoSlot
                               => /\ found \in SearchLanes
                                  /\ bucket[found] = key
                                  /\ \A i \in 0 .. (found - 1) : bucket[i] # key
               /\ ret.op = "search"
                     => /\ ret.index = NoSlot <=> \A i \in SearchLanes : bucket[i] # ret.key
                        /\ ret.index # NoSlot
                              => /\ ret.index \in SearchLanes
                                 /\ bucket[ret.index] = ret.key
                                 /\ \A i \in 0 .. (ret.index - 1) : bucket[i] # ret.key

\* search(0, bucket) found the first of two empty lanes behind a taken one
C34_Witness ==
    /\ variant = "control64"
    /\ ret.op = "search"
    /\ ret.key = 0
    /\ ret.index = 1
    /\ buckets[0].key # 0
    /\ buckets[1].key = 0
    /\ buckets[3].key = 0


\* ------------------------------------------------------------------ the operations of Group

\* two groups of tags, every tag value in every place
InitGroup ==
    /\ variant = "group"
    /\ bucket_mask = 2 * W - 1
    /\ aligned_bucket_mask = W
    /\ ctrl \in [0 .. (2 * W - 1) -> Tags]
    /\ buckets = [i \in 0 .. (2 * W - 1) |-> EmptyBucket]
    /\ items = 0
    /\ hash_of = [k \in Keys |-> 0]
    /\ zero_value = None
    /\ std_map = [k \in AllKeys |-> None]
    /\ ret = [op |-> "with_capacity", key |-> Uninit, val |-> {},
              inserted |-> FALSE, index |-> NoSlot, moves |-> 0]
    /\ status = "ready"
    /\ ops = 0
    /\ pending = NoWrites
    /\ destructed = [value \in OwnedValues |-> 0]

\* the result of one operation on the group loaded at pos: ret.val is the
\* BitMask, ret.key the tag looked for
GroupReturn(op, pos, tag, mask) ==
    /\ status = "ready"
    /\ variant = "group"
    /\ ret' = [op |-> op, key |-> tag, val |-> mask,
               inserted |-> FALSE, index |-> pos, moves |-> 0]
    /\ UNCHANGED <<variant, bucket_mask, aligned_bucket_mask, ctrl, buckets, items,
                   zero_value, hash_of, std_map, status, ops, pending, destructed>>

GroupMatchTag(pos, tag) ==
    GroupReturn("match_tag", pos, tag, match_tag(GroupLoad(pos), tag))

GroupMatchEmpty(pos) ==
    GroupReturn("match_empty", pos, EMPTY, match_empty(GroupLoad(pos)))

GroupMatchEmptyOrDeleted(pos) ==
    GroupReturn("match_empty_or_deleted", pos, EMPTY,
                match_empty_or_deleted(GroupLoad(pos)))

GroupMatchFull(pos) ==
    GroupReturn("match_full", pos, EMPTY, match_full(GroupLoad(pos)))

NextGroup ==
    \/ \E pos \in 0 .. W, tag \in Tags : GroupMatchTag(pos, tag)
    \/ \E pos \in 0 .. W : GroupMatchEmpty(pos)
    \/ \E pos \in 0 .. W : GroupMatchEmptyOrDeleted(pos)
    \/ \E pos \in 0 .. W : GroupMatchFull(pos)

SpecGroup == InitGroup /\ [][NextGroup]_vars

\* C35: for every group of W tags, each EMPTY, DELETED or FULL:
\* match_empty_or_deleted selects exactly the lanes whose high bit is set,
\* match_full exactly the other lanes, match_empty exactly the lanes that are
\* EMPTY, and match_tag(t) for a FULL tag t exactly the lanes equal to t,
\* none of which is EMPTY or DELETED
C35_GroupMasksSelectTheirLanes ==
    variant = "group"
        => LET lanes == 0 .. (W - 1)
               high_bit(tag) == (tag \div (2 ^ FpBits)) % 2 = 1
               special(group) == {i \in lanes : group[i] \in {EMPTY, DELETED}}
               right(op, group, tag) ==
                   CASE op = "match_empty_or_deleted" ->
                            {i \in lanes : high_bit(group[i])}
                     [] op = "match_full" ->
                            lanes \ {i \in lanes : high_bit(group[i])}
                     [] op = "match_empty" -> {i \in lanes : group[i] = EMPTY}
                     [] op = "match_tag" -> {i \in lanes : group[i] = tag}
           IN  /\ \A pos \in 0 .. W :
                     LET group == GroupLoad(pos)
                     IN  /\ match_empty_or_deleted(group)
                                = right("match_empty_or_deleted", group, EMPTY)
                         /\ match_empty_or_deleted(group) = special(group)
                         /\ match_full(group) = right("match_full", group, EMPTY)
                         /\ match_full(group) \cap special(group) = {}
                         /\ match_empty(group) = right("match_empty", group, EMPTY)
                         /\ \A t \in FullTags :
                               /\ match_tag(group, t) = right("match_tag", group, t)
                               /\ match_tag(group, t) \cap special(group) = {}
                               /\ match_tag(group, t) \subseteq match_full(group)
               /\ (ret.op \in {"match_empty_or_deleted", "match_full", "match_empty"}
                      \/ (ret.op = "match_tag" /\ ret.key \in FullTags))
                     => ret.val = right(ret.op, GroupLoad(ret.index), ret.key)

\* match_full of a group loaded across the group boundary, a DELETED tag in
\* its first lane and a FULL tag in its last: the mask is the last lane alone
C35_Witness ==
    /\ variant = "group"
    /\ ret.op = "match_full"
    /\ ret.index = 1
    /\ ctrl[1] = DELETED
    /\ is_full(ctrl[W])
    /\ ret.val = {W - 1}

====
